---- MODULE Spec2Model ----
(***************************************************************************)
(* Model of the streaming translators of claudish: the OpenAI-SSE to       *)
(* Anthropic-SSE conversion of createStreamingResponseHandler              *)
(* (src/handlers/shared/openai-compat.ts) and of                           *)
(* PoeHandler.createStreamingResponse (handlers/local-provider-handler.ts).*)
(* One behaviour is one response: the upstream delivers data lines one at  *)
(* a time, the translator appends events to the response stream `out`.     *)
(***************************************************************************)
EXTENDS Integers, Sequences, FiniteSets, TLC

\* Upstream data lines (other than the [DONE] line) read during one response.
MaxChunks == 3
\* Keep-alive pings the ticker may add after the initial ping.
MaxPings == 1
\* Disturbances during one response: lapses of more than 1 s without activity,
\* middleware hook calls that throw, a cancel by the client.
MaxDisturbances == 1
\* <invoke> elements in one <function_calls> block given to the XML parser.
MaxInvokes == 2

VARIABLES
  handler,            \* which translator serves the response: "compat" | "poe"
  pc,                 \* position of the async start() body
  upstream,           \* the data lines read from the upstream body so far
  cur,                \* the chunk being processed across the afterStreamChunk await
  out,                \* events enqueued on the response stream, in order
  isClosed,           \* the closure's isClosed flag
  ctrl,               \* ReadableStream controller: "open" | "closed" | "errored"
  pingOn,             \* the setInterval ticker is installed
  idle,               \* Date.now() - lastActivity > 1000
  state,              \* StreamingState of createStreamingResponseHandler
  finReason,          \* the reason finalize() was entered with
  hookFails,          \* number of middleware hook calls that threw
  lapses,             \* number of times more than 1 s passed without activity
  ending,             \* how the upstream body ended: "" | "done" | "eof" | "error"
  cancelled,          \* the client cancelled the response stream
  blockTracker,       \* ContentBlockTracker of the Poe handler
  currentBlockIndex,  \* Poe: currentBlockIndex (-1 models null)
  xmlDoc,             \* the document whose text is given to XMLToolCallParser
  xmlResult,          \* what the parser, or the translation of the text, returned
  fnInput,            \* the arguments of a call of one of the request-side functions
  fnOutput            \* what that call returned (NoValue before the call)

vars == <<handler, pc, upstream, cur, out, isClosed, ctrl, pingOn, idle, state,
          finReason, hookFails, lapses, ending, cancelled, blockTracker,
          currentBlockIndex, xmlDoc, xmlResult, fnInput, fnOutput>>

\* The variables of one streamed response and of the XML parser harness.
streamVars == <<handler, pc, upstream, cur, out, isClosed, ctrl, pingOn, idle, state,
                finReason, hookFails, lapses, ending, cancelled, blockTracker,
                currentBlockIndex, xmlDoc, xmlResult>>

\* fnInput and fnOutput while no request-side function is being called.
NoValue == <<>>

----------------------------------------------------------------------------
\* Upstream chunks.  Text is a sequence of tokens: "FS" and "FE" stand for the
\* <function_calls> and </function_calls> markers, "IS:f" for <invoke name="f">,
\* "IE" for </invoke>, "PS:k" for <parameter name="k">, "PE" for </parameter>,
\* " " for white space; any other token is ordinary text.

NoUsage == -1
NoText == <<>>

\* One element of delta.tool_calls: name "" and arguments <<>> model absent fields.
ToolCall(i, n, a) == [index |-> i, name |-> n, arguments |-> a]

\* A parsed chunk: valid = JSON.parse succeeds, object = chunk.object,
\* hasChoice = choices[0] (with its delta) exists, finish = finish_reason,
\* usage = usage.completion_tokens, reasoning = delta.reasoning_content.
Chunk(obj, role, content, tcs, fin, usage) ==
  [valid |-> TRUE, object |-> obj, hasChoice |-> TRUE, role |-> role,
   content |-> content, tool_calls |-> tcs, finish |-> fin, usage |-> usage,
   reasoning |-> NoText]

BadJsonLine ==
  [valid |-> FALSE, object |-> "", hasChoice |-> FALSE, role |-> FALSE,
   content |-> NoText, tool_calls |-> <<>>, finish |-> "", usage |-> NoUsage,
   reasoning |-> NoText]

UsageOnlyChunk ==
  [valid |-> TRUE, object |-> "chat.completion.chunk", hasChoice |-> FALSE,
   role |-> FALSE, content |-> NoText, tool_calls |-> <<>>, finish |-> "",
   usage |-> 5, reasoning |-> NoText]

CC == "chat.completion.chunk"

\* A delta that carries one tool_calls element and nothing else.
ToolChunk(i, n, a) == Chunk(CC, FALSE, NoText, <<ToolCall(i, n, a)>>, "", NoUsage)

\* One text delta holding text, a complete <function_calls> block, and text.
XmlChunk ==
  Chunk(CC, FALSE, <<"t", "FS", "IS:f", "PS:k", "v", "PE", "IE", "FE", "u">>, <<>>, "",
        NoUsage)

\* A delta that carries reasoning text and nothing else.
ReasoningChunk ==
  [Chunk(CC, FALSE, NoText, <<>>, "", NoUsage) EXCEPT !.reasoning = <<"r">>]

ToolChunks ==
  { ToolChunk(0, "f", <<>>), ToolChunk(0, "f", <<"x">>),
    ToolChunk(0, "", <<"x">>), ToolChunk(0, "", <<"y">>),
    ToolChunk(1, "f", <<"x">>), ToolChunk(1, "", <<"y">>) }

Chunks ==
  ToolChunks \cup
  { Chunk(CC, FALSE, <<"t">>, <<>>, "", NoUsage),
    Chunk("", FALSE, <<"t">>, <<>>, "", NoUsage),
    XmlChunk,
    ReasoningChunk,
    Chunk(CC, FALSE, <<"t">>, <<ToolCall(0, "f", <<"x">>)>>, "", NoUsage),
    Chunk(CC, FALSE, NoText, <<ToolCall(0, "f", <<"x">>)>>, "tool_calls", NoUsage),
    Chunk(CC, FALSE, NoText, <<>>, "stop", 2),
    Chunk(CC, FALSE, NoText, <<>>, "length", NoUsage),
    Chunk(CC, FALSE, NoText, <<>>, "tool_calls", NoUsage),
    Chunk(CC, TRUE, NoText, <<>>, "tool_calls", NoUsage),
    UsageOnlyChunk,
    BadJsonLine }

NoChunk == BadJsonLine

----------------------------------------------------------------------------
\* Events of the response stream.

\* usage is the set of keys of the event's usage object, output_tokens the value
\* under that key where the model follows it.
Ev(type, index, kind, data, reason, tokens) ==
  [type |-> type, index |-> index, kind |-> kind, data |-> data,
   stop_reason |-> reason, output_tokens |-> tokens, usage |-> {}]

MessageStart ==
  [Ev("message_start", -1, "", <<>>, "", -1) EXCEPT
     !.usage = {"input_tokens", "output_tokens"}]
Ping == Ev("ping", -1, "", <<>>, "", -1)
BlockStart(i, kind) == Ev("content_block_start", i, kind, <<>>, "", -1)
BlockDelta(i, kind, data) == Ev("content_block_delta", i, kind, data, "", -1)
BlockStop(i) == Ev("content_block_stop", i, "", <<>>, "", -1)
MessageDelta(reason, tokens) ==
  [Ev("message_delta", -1, "", <<>>, reason, tokens) EXCEPT !.usage = {"output_tokens"}]
MessageStop == Ev("message_stop", -1, "", <<>>, "", -1)
ErrorEvent == Ev("error", -1, "api_error", <<>>, "", -1)
DoneMarker == Ev("[DONE]", -1, "", <<>>, "", -1)

\* Mutant of Send: the isClosed flag is not consulted.
SendAlways(closed, q, e) == Append(q, e)

\* send(e, d): enqueue unless the closure's isClosed flag is set.
Send(closed, q, e) == IF closed THEN q ELSE Append(q, e)

RECURSIVE SendAll(_, _, _)
SendAll(closed, q, es) ==
  IF es = <<>> THEN q ELSE SendAll(closed, Send(closed, q, Head(es)), Tail(es))

----------------------------------------------------------------------------
\* createStreamingResponseHandler (openai-compat.ts)

createStreamingState ==
  [usage |-> NoUsage, finalized |-> FALSE, textStarted |-> FALSE, textIdx |-> -1,
   reasoningStarted |-> FALSE, reasoningIdx |-> -1, curIdx |-> 0, tools |-> <<>>]

\* Mutant of StoreUsage: the first usage seen is kept, later ones are dropped.
StoreUsageFirst(st, c) ==
  IF c.usage # NoUsage /\ st.usage = NoUsage THEN [st EXCEPT !.usage = c.usage] ELSE st

\* "if (chunk.usage) state.usage = chunk.usage"
StoreUsage(st, c) ==
  IF c.usage # NoUsage THEN [st EXCEPT !.usage = c.usage] ELSE st

\* state.tools.get(idx): position of the entry in the insertion-ordered Map, 0 if none.
ToolPos(tools, idx) ==
  IF \E p \in DOMAIN tools : tools[p].idx = idx
    THEN CHOOSE p \in DOMAIN tools : tools[p].idx = idx
    ELSE 0

\* adapter.processTextContent(txt, "").cleanedText
processTextContent(txt) == txt

\* Mutant of HandleText: every text delta opens a block, none being closed.
HandleTextAlwaysStart(m, txt, closed) ==
  IF txt = NoText THEN m
  ELSE
    LET st1 == [m.st EXCEPT !.textIdx = m.st.curIdx, !.curIdx = @ + 1,
                            !.textStarted = TRUE]
        q1 == Send(closed, m.q, BlockStart(st1.textIdx, "text"))
    IN [st |-> st1, idle |-> FALSE,
        q |-> Send(closed, q1, BlockDelta(st1.textIdx, "text_delta", txt))]

\* "Handle text content": m = [st, q, idle].
HandleText(m, txt, closed) ==
  IF txt = NoText THEN m
  ELSE
    LET starts == ~m.st.textStarted
        cleaned == processTextContent(txt)
        st1 == IF starts
                 THEN [m.st EXCEPT !.textIdx = m.st.curIdx, !.curIdx = @ + 1,
                                   !.textStarted = TRUE]
                 ELSE m.st
        q1 == IF starts THEN Send(closed, m.q, BlockStart(st1.textIdx, "text")) ELSE m.q
        q2 == IF cleaned # NoText
                THEN Send(closed, q1, BlockDelta(st1.textIdx, "text_delta", cleaned))
                ELSE q1
    IN [st |-> st1, q |-> q2, idle |-> FALSE]

\* Mutant of HandleToolCall: the text block is stopped for a new tool block but
\* state.textStarted is not reset.
HandleToolCallKeepText(m, tc, closed) ==
  LET pos == ToolPos(m.st.tools, tc.index)
      isNew == tc.name # "" /\ pos = 0
      q1 == IF isNew /\ m.st.textStarted
              THEN Send(closed, m.q, BlockStop(m.st.textIdx)) ELSE m.q
      st1 == IF isNew
               THEN [m.st EXCEPT
                       !.curIdx = @ + 1,
                       !.tools = Append(@, [idx |-> tc.index, name |-> tc.name,
                                            blockIndex |-> m.st.curIdx,
                                            started |-> TRUE, closed |-> FALSE])]
               ELSE m.st
      pos1 == ToolPos(st1.tools, tc.index)
      q2 == IF isNew
              THEN Send(closed, q1, BlockStart(st1.tools[pos1].blockIndex, "tool_use"))
              ELSE q1
      q3 == IF tc.arguments # <<>> /\ pos1 # 0
              THEN Send(closed, q2, BlockDelta(st1.tools[pos1].blockIndex,
                                               "input_json_delta", tc.arguments))
              ELSE q2
  IN [st |-> st1, q |-> q3, idle |-> m.idle]

\* Mutant of HandleToolCall: the arguments carried by the delta that creates the
\* tool block are not forwarded.
HandleToolCallDropFirstArgs(m, tc, closed) ==
  LET pos == ToolPos(m.st.tools, tc.index)
      isNew == tc.name # "" /\ pos = 0
      q1 == IF isNew /\ m.st.textStarted
              THEN Send(closed, m.q, BlockStop(m.st.textIdx)) ELSE m.q
      st1 == IF isNew
               THEN [m.st EXCEPT
                       !.textStarted = FALSE,
                       !.curIdx = @ + 1,
                       !.tools = Append(@, [idx |-> tc.index, name |-> tc.name,
                                            blockIndex |-> m.st.curIdx,
                                            started |-> TRUE, closed |-> FALSE])]
               ELSE m.st
      pos1 == ToolPos(st1.tools, tc.index)
      q2 == IF isNew
              THEN Send(closed, q1, BlockStart(st1.tools[pos1].blockIndex, "tool_use"))
              ELSE q1
      q3 == IF tc.arguments # <<>> /\ pos # 0
              THEN Send(closed, q2, BlockDelta(st1.tools[pos1].blockIndex,
                                               "input_json_delta", tc.arguments))
              ELSE q2
  IN [st |-> st1, q |-> q3, idle |-> m.idle]

\* Mutant of HandleToolCall: a delta without a name creates a tool block too.
HandleToolCallNameless(m, tc, closed) ==
  LET pos == ToolPos(m.st.tools, tc.index)
      isNew == pos = 0
      q1 == IF isNew /\ m.st.textStarted
              THEN Send(closed, m.q, BlockStop(m.st.textIdx)) ELSE m.q
      st1 == IF isNew
               THEN [m.st EXCEPT
                       !.textStarted = FALSE,
                       !.curIdx = @ + 1,
                       !.tools = Append(@, [idx |-> tc.index, name |-> tc.name,
                                            blockIndex |-> m.st.curIdx,
                                            started |-> FALSE, closed |-> FALSE])]
               ELSE m.st
      pos1 == ToolPos(st1.tools, tc.index)
      needStart == ~st1.tools[pos1].started
      q2 == IF needStart
              THEN Send(closed, q1, BlockStart(st1.tools[pos1].blockIndex, "tool_use"))
              ELSE q1
      st2 == IF needStart THEN [st1 EXCEPT !.tools[pos1].started = TRUE] ELSE st1
      q3 == IF tc.arguments # <<>>
              THEN Send(closed, q2, BlockDelta(st2.tools[pos1].blockIndex,
                                               "input_json_delta", tc.arguments))
              ELSE q2
  IN [st |-> st2, q |-> q3, idle |-> m.idle]

\* One iteration of "for (const tc of delta.tool_calls)".
HandleToolCall(m, tc, closed) ==
  LET pos == ToolPos(m.st.tools, tc.index)
      isNew == tc.name # "" /\ pos = 0
      q1 == IF isNew /\ m.st.textStarted
              THEN Send(closed, m.q, BlockStop(m.st.textIdx)) ELSE m.q
      st1 == IF isNew
               THEN [m.st EXCEPT
                       !.textStarted = FALSE,
                       !.curIdx = @ + 1,
                       !.tools = Append(@, [idx |-> tc.index, name |-> tc.name,
                                            blockIndex |-> m.st.curIdx,
                                            started |-> FALSE, closed |-> FALSE])]
               ELSE m.st
      pos1 == ToolPos(st1.tools, tc.index)
      needStart == tc.name # "" /\ ~st1.tools[pos1].started
      q2 == IF needStart
              THEN Send(closed, q1, BlockStart(st1.tools[pos1].blockIndex, "tool_use"))
              ELSE q1
      st2 == IF needStart THEN [st1 EXCEPT !.tools[pos1].started = TRUE] ELSE st1
      q3 == IF tc.arguments # <<>> /\ pos1 # 0
              THEN Send(closed, q2, BlockDelta(st2.tools[pos1].blockIndex,
                                               "input_json_delta", tc.arguments))
              ELSE q2
  IN [st |-> st2, q |-> q3, idle |-> m.idle]

RECURSIVE HandleToolCalls(_, _, _)
HandleToolCalls(m, tcs, closed) ==
  IF tcs = <<>> THEN m
  ELSE HandleToolCalls(HandleToolCall(m, Head(tcs), closed), Tail(tcs), closed)

\* "for (const t of state.tools.values()) if (t.started && !t.closed) { stop; closed = true }"
RECURSIVE CloseOpenTools(_, _, _)
CloseOpenTools(m, p, closed) ==
  IF p > Len(m.st.tools) THEN m
  ELSE
    LET t == m.st.tools[p]
        hit == t.started /\ ~t.closed
        m1 == IF hit
                THEN [m EXCEPT !.q = Send(closed, m.q, BlockStop(t.blockIndex)),
                               !.st.tools[p].closed = TRUE]
                ELSE m
    IN CloseOpenTools(m1, p + 1, closed)

\* The finish_reason test that ends the per-line try block.
HandleFinish(m, fin, closed) ==
  IF fin = "tool_calls" THEN CloseOpenTools(m, 1, closed) ELSE m

\* finalize(), up to the await of afterStreamComplete.
FinalizeBegin(m, closed) ==
  LET q1 == IF m.st.reasoningStarted
              THEN Send(closed, m.q, BlockStop(m.st.reasoningIdx)) ELSE m.q
      q2 == IF m.st.textStarted THEN Send(closed, q1, BlockStop(m.st.textIdx)) ELSE q1
  IN CloseOpenTools([m EXCEPT !.q = q2, !.st.finalized = TRUE], 1, closed)

\* The stop_reason finalize() writes into message_delta.
StopReason(st, reason) == "end_turn"

\* Mutant of FinalizeEnd: message_stop is written without a message_delta.
FinalizeEndNoDelta(st, q, reason, closed) ==
  Send(closed,
       Send(closed, q, IF reason = "error" THEN ErrorEvent ELSE MessageStop),
       DoneMarker)

\* Mutant of FinalizeEnd: the error event is followed by message_stop.
FinalizeEndErrorThenStop(st, q, reason, closed) ==
  LET q1 == IF reason = "error"
              THEN SendAll(closed, q, <<ErrorEvent, MessageStop>>)
              ELSE SendAll(closed, q,
                     << MessageDelta(StopReason(st, reason),
                                     IF st.usage = NoUsage THEN 0 ELSE st.usage),
                        MessageStop >>)
  IN Send(closed, q1, DoneMarker)

\* finalize(), from the reason test to the [DONE] marker (not the close itself).
FinalizeEnd(st, q, reason, closed) ==
  LET q1 == IF reason = "error"
              THEN Send(closed, q, ErrorEvent)
              ELSE SendAll(closed, q,
                     << MessageDelta(StopReason(st, reason),
                                     IF st.usage = NoUsage THEN 0 ELSE st.usage),
                        MessageStop >>)
  IN Send(closed, q1, DoneMarker)

----------------------------------------------------------------------------
\* XMLToolCallParser on token sequences (local-provider-handler.ts).

\* text.indexOf(tok): first position of tok, 0 if absent.
IndexOf(text, tok) ==
  IF \E i \in DOMAIN text : text[i] = tok
    THEN CHOOSE i \in DOMAIN text : text[i] = tok /\ \A j \in 1..(i - 1) : text[j] # tok
    ELSE 0

containsToolCalls(text) == IndexOf(text, "FS") # 0

\* The markers that carry a name, and the name each carries.
InvokeStarts == {"IS:f", "IS:g"}
ParameterStarts == {"PS:k", "PS:m"}

NameOf(tok) ==
  CASE tok = "IS:f" -> "f" [] tok = "IS:g" -> "g"
    [] tok = "PS:k" -> "k" [] tok = "PS:m" -> "m"
    [] OTHER -> ""

\* seq.indexOf(marker, from) for a marker out of the set toks: 0 if absent.
IndexFrom(seq, toks, from) ==
  IF \E i \in from..Len(seq) : seq[i] \in toks
    THEN CHOOSE i \in from..Len(seq) :
           seq[i] \in toks /\ \A j \in from..(i - 1) : seq[j] \notin toks
    ELSE 0

\* String.prototype.trim on a token sequence.
RECURSIVE trim(_)
trim(v) ==
  IF v = <<>> THEN v
  ELSE IF Head(v) = " " THEN trim(Tail(v))
  ELSE IF v[Len(v)] = " " THEN trim(SubSeq(v, 1, Len(v) - 1))
  ELSE v

\* parameters[paramName] = value on an insertion-ordered object.
SetParameter(parameters, name, value) ==
  IF \E p \in DOMAIN parameters : parameters[p].name = name
    THEN [p \in DOMAIN parameters |->
            IF parameters[p].name = name THEN [name |-> name, value |-> value]
            ELSE parameters[p]]
    ELSE Append(parameters, [name |-> name, value |-> value])

\* JSON.stringify of an object whose values are strings: { name : value , ... }
RECURSIVE JsonMembers(_)
JsonMembers(parameters) ==
  IF parameters = <<>> THEN <<>>
  ELSE <<Head(parameters).name, ":">> \o Head(parameters).value \o <<",">>
       \o JsonMembers(Tail(parameters))

JsonStringify(parameters) == <<"{">> \o JsonMembers(parameters) \o <<"}">>

\* The while loop of parseInvokeBlock that collects the parameters.
RECURSIVE ParseParameters(_, _, _)
ParseParameters(invokeBlock, currentIdx, parameters) ==
  LET paramStart == IndexFrom(invokeBlock, ParameterStarts, currentIdx)
      paramEndTag == IF paramStart = 0 THEN 0
                     ELSE IndexFrom(invokeBlock, {"PE"}, paramStart + 1)
  IN IF currentIdx > Len(invokeBlock) \/ paramStart = 0 \/ paramEndTag = 0
       THEN parameters
       ELSE ParseParameters(invokeBlock, paramEndTag + 1,
              SetParameter(parameters, NameOf(invokeBlock[paramStart]),
                           trim(SubSeq(invokeBlock, paramStart + 1, paramEndTag - 1))))

\* An invoke block starts with its <invoke name="..."> marker.
parseInvokeBlock(invokeBlock, index) ==
  ToolCall(index, NameOf(invokeBlock[1]),
           JsonStringify(ParseParameters(invokeBlock, 2, <<>>)))

RECURSIVE extractInvokeBlocks(_, _)
extractInvokeBlocks(functionCallsContent, currentIdx) ==
  LET startIdx == IndexFrom(functionCallsContent, InvokeStarts, currentIdx)
      endIdx == IF startIdx = 0 THEN 0
                ELSE IndexFrom(functionCallsContent, {"IE"}, startIdx)
  IN IF currentIdx > Len(functionCallsContent) \/ startIdx = 0 \/ endIdx = 0
       THEN <<>>
       ELSE <<SubSeq(functionCallsContent, startIdx, endIdx)>>
            \o extractInvokeBlocks(functionCallsContent, endIdx + 1)

\* parseToolCalls; <<>> models null.  substring(a, b) swaps its arguments when
\* a > b, which happens when the end marker comes before the start marker.
parseToolCalls(text, toolIndex) ==
  LET startIdx == IndexOf(text, "FS")
      endIdx == IndexOf(text, "FE")
      functionCallsBlock ==
        IF endIdx < startIdx THEN SubSeq(text, endIdx, startIdx)
        ELSE SubSeq(text, startIdx + 1, endIdx - 1)
      invokeBlocks == extractInvokeBlocks(functionCallsBlock, 1)
  IN IF startIdx = 0 \/ endIdx = 0 THEN <<>>
     ELSE [i \in DOMAIN invokeBlocks |-> parseInvokeBlock(invokeBlocks[i], toolIndex + i - 1)]

\* Mutant of removeToolCalls: without an end marker everything from the start
\* marker on is dropped.
removeToolCallsTruncating(text) ==
  LET startIdx == IndexOf(text, "FS")
      endIdx == IndexOf(text, "FE")
  IN IF startIdx # 0 /\ endIdx # 0
       THEN SubSeq(text, 1, startIdx - 1) \o SubSeq(text, endIdx + 1, Len(text))
       ELSE IF startIdx # 0 THEN SubSeq(text, 1, startIdx - 1) ELSE text

removeToolCalls(text) ==
  LET startIdx == IndexOf(text, "FS")
      endIdx == IndexOf(text, "FE")
  IN IF startIdx # 0 /\ endIdx # 0
       THEN SubSeq(text, 1, startIdx - 1) \o SubSeq(text, endIdx + 1, Len(text))
       ELSE text

----------------------------------------------------------------------------
\* PoeHandler.transformChunk

NullChunk == [type |-> "null", tool_calls |-> <<>>, text |-> NoText]

transformChunk(c) ==
  IF ~c.hasChoice THEN NullChunk
  ELSE IF c.object \notin {"chat.completion.chunk", "chat.completion"} THEN NullChunk
  ELSE IF c.tool_calls # <<>>
    THEN [type |-> "tool_calls", tool_calls |-> c.tool_calls, text |-> NoText]
  ELSE IF c.content # NoText
    THEN IF containsToolCalls(c.content) /\ parseToolCalls(c.content, 0) # <<>>
           THEN [type |-> "tool_calls", tool_calls |-> parseToolCalls(c.content, 0),
                 text |-> NoText]
           ELSE [type |-> "content_block_delta", tool_calls |-> <<>>,
                 text |-> removeToolCalls(c.content)]
  ELSE IF c.role THEN NullChunk
  ELSE IF c.finish # ""
    THEN [type |-> "content_block_stop", tool_calls |-> <<>>, text |-> NoText]
  ELSE NullChunk

----------------------------------------------------------------------------
\* ContentBlockTracker.  blocks and tools are the two Maps in insertion order;
\* toolIndexToBlockIndex is a function whose domain is the set of keys.

NewTracker == [blocks |-> <<>>, tools |-> <<>>, toolIndexToBlockIndex |-> <<>>,
               nextIndex |-> 0]

\* Mutant of startTextBlock: nextIndex is read but not advanced.
startTextBlockNoAdvance(bt) ==
  [bt EXCEPT !.blocks = Append(@, [index |-> bt.nextIndex, stopped |-> FALSE])]

startTextBlock(bt) ==
  [bt EXCEPT !.nextIndex = @ + 1,
             !.blocks = Append(@, [index |-> bt.nextIndex, stopped |-> FALSE])]

startToolBlock(bt, toolIndex) ==
  [bt EXCEPT !.nextIndex = @ + 1,
             !.tools = Append(@, [index |-> bt.nextIndex, stopped |-> FALSE]),
             !.toolIndexToBlockIndex = (toolIndex :> bt.nextIndex) @@ @]

StopIn(seq, index) ==
  [p \in DOMAIN seq |->
     IF seq[p].index = index THEN [seq[p] EXCEPT !.stopped = TRUE] ELSE seq[p]]

stopBlock(bt, index) ==
  [bt EXCEPT !.blocks = StopIn(@, index), !.tools = StopIn(@, index)]

\* -1 models undefined.
getToolBlockIndex(bt, toolIndex) ==
  IF toolIndex \in DOMAIN bt.toolIndexToBlockIndex
    THEN bt.toolIndexToBlockIndex[toolIndex] ELSE -1

RECURSIVE OpenIndices(_)
OpenIndices(seq) ==
  IF seq = <<>> THEN <<>>
  ELSE (IF Head(seq).stopped THEN <<>> ELSE <<Head(seq).index>>) \o OpenIndices(Tail(seq))

\* The indices ensureAllBlocksStopped() returns: the blocks Map first, then tools.
StoppedIndices(bt) == OpenIndices(bt.blocks) \o OpenIndices(bt.tools)

ensureAllBlocksStopped(bt) ==
  [bt EXCEPT !.blocks = [p \in DOMAIN @ |-> [@[p] EXCEPT !.stopped = TRUE]],
             !.tools = [p \in DOMAIN @ |-> [@[p] EXCEPT !.stopped = TRUE]]]

RECURSIVE SendStops(_, _, _)
SendStops(closed, q, indices) ==
  IF indices = <<>> THEN q
  ELSE SendStops(closed, Send(closed, q, BlockStop(Head(indices))), Tail(indices))

----------------------------------------------------------------------------
\* PoeHandler.createStreamingResponse, the body of the per-event try block.
\* m = [bt, cbi, q]: the tracker, currentBlockIndex and the response stream.

\* "Check if we need to start a text block (but NOT if we have tool calls)"
PoeStartText(m, c, claudeChunk, closed) ==
  IF m.cbi = -1 /\ c.hasChoice /\ c.content # NoText /\ claudeChunk.type # "tool_calls"
    THEN [bt |-> startTextBlock(m.bt), cbi |-> m.bt.nextIndex,
          q |-> Send(closed, m.q, BlockStart(m.bt.nextIndex, "text"))]
    ELSE m

\* One iteration of "for (const toolCall of claudeChunk.tool_calls)".
\* !existingBlockIndex is true for undefined and for block index 0.
PoeToolCall(m, tc, closed) ==
  LET existing == getToolBlockIndex(m.bt, tc.index)
      startNew == tc.name # "" /\ (existing = -1 \/ existing = 0)
      q1 == IF startNew /\ m.cbi # -1 THEN Send(closed, m.q, BlockStop(m.cbi)) ELSE m.q
      bt1 == IF startNew /\ m.cbi # -1 THEN stopBlock(m.bt, m.cbi) ELSE m.bt
      cbi1 == IF startNew THEN -1 ELSE m.cbi
      bt2 == IF startNew THEN startToolBlock(bt1, tc.index) ELSE bt1
      q2 == IF startNew THEN Send(closed, q1, BlockStart(bt1.nextIndex, "tool_use")) ELSE q1
      toolBlockIndex == getToolBlockIndex(bt2, tc.index)
      q3 == IF tc.arguments # <<>> /\ toolBlockIndex # -1
              THEN Send(closed, q2, BlockDelta(toolBlockIndex, "input_json_delta",
                                               tc.arguments))
              ELSE q2
  IN [bt |-> bt2, cbi |-> cbi1, q |-> q3]

RECURSIVE PoeToolCalls(_, _, _)
PoeToolCalls(m, tcs, closed) ==
  IF tcs = <<>> THEN m
  ELSE PoeToolCalls(PoeToolCall(m, Head(tcs), closed), Tail(tcs), closed)

\* "if (claudeChunk) { ... }" up to the read of delta._cachedCleanText.
PoeDispatch(m, claudeChunk, closed) ==
  IF claudeChunk.type = "content_block_delta" /\ m.cbi # -1
    THEN [m EXCEPT !.q = Send(closed, m.q, BlockDelta(m.cbi, "text_delta",
                                                      claudeChunk.text))]
  ELSE IF claudeChunk.type = "content_block_stop" /\ m.cbi # -1
    THEN [bt |-> stopBlock(m.bt, m.cbi), cbi |-> -1,
          q |-> Send(closed, m.q, BlockStop(m.cbi))]
  ELSE IF claudeChunk.type = "tool_calls"
    THEN PoeToolCalls(m, claudeChunk.tool_calls, closed)
  ELSE m

\* "Handle tool_calls finish reason": every block of the tracker is stopped.
PoeFinish(m, c, closed) ==
  IF c.hasChoice /\ c.finish = "tool_calls"
    THEN [m EXCEPT !.bt = ensureAllBlocksStopped(m.bt),
                   !.q = SendStops(closed, m.q, StoppedIndices(m.bt))]
    ELSE m

\* The whole try block for one parsed chunk.  `delta` is not declared anywhere in
\* createStreamingResponse, so for a non-null claudeChunk the read of
\* delta._cachedCleanText throws a ReferenceError that the per-event catch
\* swallows: the finish_reason test below it runs only when claudeChunk is null.
PoeProcess(m, c, closed) ==
  LET claudeChunk == transformChunk(c)
      m1 == PoeStartText(m, c, claudeChunk, closed)
  IN IF claudeChunk.type # "null"
       THEN PoeDispatch(m1, claudeChunk, closed)
       ELSE PoeFinish(m1, c, closed)

\* Mutant of PoeHandleEvent: a line that does not parse ends the open blocks.
PoeHandleEventBadJsonStops(m, c, closed) ==
  IF c.valid THEN PoeProcess(m, c, closed)
  ELSE [m EXCEPT !.bt = ensureAllBlocksStopped(m.bt),
                 !.q = SendStops(closed, m.q, StoppedIndices(m.bt))]

\* One event of the for loop: JSON.parse, the try block, and the catch that hands
\* a SyntaxError to errorHandler.handle, which only logs.
PoeHandleEvent(m, c, closed) ==
  IF c.valid THEN PoeProcess(m, c, closed) ELSE m

----------------------------------------------------------------------------
\* Shared scheduling: the keep-alive ticker and the passing of time.

NumPings == Cardinality({i \in DOMAIN out : out[i].type = "ping"})

Disturbances == lapses + hookFails + (IF cancelled THEN 1 ELSE 0)

\* More than one second passes without lastActivity being refreshed.
TimePasses ==
  /\ ~idle
  /\ pingOn
  /\ Disturbances < MaxDisturbances
  /\ idle' = TRUE
  /\ lapses' = lapses + 1
  /\ UNCHANGED <<fnInput, fnOutput, xmlDoc, xmlResult, handler, pc, upstream, cur, out, isClosed, ctrl, pingOn, state,
                 finReason, hookFails, ending, cancelled, blockTracker,
                 currentBlockIndex>>

\* The setInterval callback: ping when not closed and idle for more than 1 s.
PingTick ==
  /\ pingOn
  /\ ~isClosed
  /\ idle
  /\ ctrl = "open"
  /\ NumPings < 1 + MaxPings
  /\ out' = Send(isClosed, out, Ping)
  /\ UNCHANGED <<fnInput, fnOutput, xmlDoc, xmlResult, handler, pc, upstream, cur, isClosed, ctrl, pingOn, idle, state,
                 finReason, hookFails, lapses, ending, cancelled, blockTracker,
                 currentBlockIndex>>

----------------------------------------------------------------------------
\* Actions of createStreamingResponseHandler.

Machine == [st |-> state, q |-> out, idle |-> idle]

\* A data line is read and parsed, up to the await of afterStreamChunk.
CompatReadLine(c) ==
  /\ handler = "compat"
  /\ pc = "read"
  /\ Len(upstream) < MaxChunks
  /\ upstream' = Append(upstream, c)
  /\ IF ~c.valid
       THEN UNCHANGED <<pc, cur, out, state>>
       ELSE
         LET st1 == StoreUsage(state, c)
         IN IF c.hasChoice
              THEN /\ pc' = "hook"
                   /\ cur' = c
                   /\ state' = st1
                   /\ out' = out
              ELSE LET m == HandleFinish([st |-> st1, q |-> out, idle |-> idle],
                                         c.finish, isClosed)
                   IN /\ state' = m.st
                      /\ out' = m.q
                      /\ UNCHANGED <<pc, cur>>
  /\ UNCHANGED <<fnInput, fnOutput, xmlDoc, xmlResult, handler, isClosed, ctrl, pingOn, idle, finReason, hookFails, lapses,
                 ending, cancelled, blockTracker, currentBlockIndex>>

\* afterStreamChunk settles; on success the delta is translated, on a throw the
\* per-line catch drops the rest of the line.
CompatAfterChunk(ok) ==
  /\ handler = "compat"
  /\ pc = "hook"
  /\ ok \/ Disturbances < MaxDisturbances
  /\ pc' = "read"
  /\ cur' = NoChunk
  /\ IF ok
       THEN LET m1 == HandleText(Machine, cur.content, isClosed)
                m2 == HandleToolCalls(m1, cur.tool_calls, isClosed)
                m3 == HandleFinish(m2, cur.finish, isClosed)
            IN /\ state' = m3.st
               /\ out' = m3.q
               /\ idle' = m3.idle
               /\ UNCHANGED hookFails
       ELSE /\ hookFails' = hookFails + 1
            /\ UNCHANGED <<state, out, idle>>
  /\ UNCHANGED <<fnInput, fnOutput, xmlDoc, xmlResult, handler, upstream, isClosed, ctrl, pingOn, finReason, lapses,
                 ending, cancelled, blockTracker, currentBlockIndex>>

\* finalize(reason) is entered: the open blocks are stopped, then
\* afterStreamComplete is awaited.
CompatFinalize(reason) ==
  /\ handler = "compat"
  /\ pc = "read"
  /\ ~state.finalized
  /\ LET m == FinalizeBegin(Machine, isClosed)
     IN /\ state' = m.st
        /\ out' = m.q
  /\ pc' = "complete"
  /\ finReason' = reason
  /\ ending' = CASE reason = "done" -> "done"
                [] reason = "unexpected" -> "eof"
                [] OTHER -> "error"
  /\ UNCHANGED <<fnInput, fnOutput, xmlDoc, xmlResult, handler, upstream, cur, isClosed, ctrl, pingOn, idle, hookFails,
                 lapses, cancelled, blockTracker, currentBlockIndex>>

\* The upstream sends the [DONE] line.
CompatDone == CompatFinalize("done")

\* reader.read() reports done without a [DONE] line.
CompatEOF == CompatFinalize("unexpected")

\* reader.read() rejects.
CompatReadError == CompatFinalize("error")

\* afterStreamComplete settles.  On success finalize() writes its closing events
\* and closes the stream; on a throw finalize() rejects: from the try block the
\* catch calls finalize("error"), which returns at once (finalized); from the
\* catch block start() rejects and the stream is errored.
CompatAfterComplete(ok) ==
  /\ handler = "compat"
  /\ pc = "complete"
  /\ ok \/ Disturbances < MaxDisturbances
  /\ pc' = "end"
  /\ IF ok
       THEN /\ out' = FinalizeEnd(state, out, finReason, isClosed)
            /\ IF ~isClosed
                 THEN /\ ctrl' = "closed"
                      /\ isClosed' = TRUE
                      /\ pingOn' = FALSE
                 ELSE UNCHANGED <<ctrl, isClosed, pingOn>>
            /\ UNCHANGED hookFails
       ELSE /\ hookFails' = hookFails + 1
            /\ ctrl' = IF finReason = "error" /\ ctrl = "open" THEN "errored" ELSE ctrl
            /\ UNCHANGED <<out, isClosed, pingOn>>
  /\ UNCHANGED <<fnInput, fnOutput, xmlDoc, xmlResult, handler, upstream, cur, idle, state, finReason, lapses, ending,
                 cancelled, blockTracker, currentBlockIndex>>

\* cancel(): the client cancelled the response stream.
CompatCancel ==
  /\ handler = "compat"
  /\ ~cancelled
  /\ ctrl = "open"
  /\ Disturbances < MaxDisturbances
  /\ cancelled' = TRUE
  /\ isClosed' = TRUE
  /\ pingOn' = FALSE
  /\ ctrl' = "closed"
  /\ UNCHANGED <<fnInput, fnOutput, xmlDoc, xmlResult, handler, pc, upstream, cur, out, idle, state, finReason,
                 hookFails, lapses, ending, blockTracker, currentBlockIndex>>

CompatNext ==
  \/ \E c \in Chunks : CompatReadLine(c)
  \/ \E ok \in BOOLEAN : CompatAfterChunk(ok)
  \/ CompatDone
  \/ CompatEOF
  \/ CompatReadError
  \/ \E ok \in BOOLEAN : CompatAfterComplete(ok)
  \/ CompatCancel

----------------------------------------------------------------------------
\* Actions of PoeHandler.createStreamingResponse.

PoeMachine == [bt |-> blockTracker, cbi |-> currentBlockIndex, q |-> out]

\* One event of sseParser.parse is handled; lastActivity is refreshed by the read.
PoeReadLine(c) ==
  /\ handler = "poe"
  /\ pc = "read"
  /\ ~isClosed
  /\ Len(upstream) < MaxChunks
  /\ upstream' = Append(upstream, c)
  /\ idle' = FALSE
  /\ LET m == PoeHandleEvent(PoeMachine, c, isClosed)
     IN /\ blockTracker' = m.bt
        /\ currentBlockIndex' = m.cbi
        /\ out' = m.q
  /\ UNCHANGED <<fnInput, fnOutput, xmlDoc, xmlResult, handler, pc, cur, isClosed, ctrl, pingOn, state, finReason,
                 hookFails, lapses, ending, cancelled>>

\* The [DONE] event: stop the open blocks, message_stop, the [DONE] marker, then
\* the finally block clears the ticker and closes the controller.
PoeDone ==
  /\ handler = "poe"
  /\ pc = "read"
  /\ ~isClosed
  /\ blockTracker' = ensureAllBlocksStopped(blockTracker)
  /\ out' = Append(Send(isClosed, SendStops(isClosed, out, StoppedIndices(blockTracker)),
                        MessageStop),
                   DoneMarker)
  /\ isClosed' = TRUE
  /\ pingOn' = FALSE
  /\ ctrl' = "closed"
  /\ pc' = "end"
  /\ idle' = FALSE
  /\ ending' = "done"
  /\ UNCHANGED <<fnInput, fnOutput, xmlDoc, xmlResult, handler, upstream, cur, state, finReason, hookFails, lapses,
                 cancelled, currentBlockIndex>>

\* reader.read() reports done without a [DONE] event: only the finally block runs.
PoeEOF ==
  /\ handler = "poe"
  /\ pc = "read"
  /\ ~isClosed
  /\ blockTracker' = ensureAllBlocksStopped(blockTracker)
  /\ out' = SendStops(isClosed, out, StoppedIndices(blockTracker))
  /\ pingOn' = FALSE
  /\ ctrl' = "closed"
  /\ pc' = "end"
  /\ ending' = "eof"
  /\ UNCHANGED <<fnInput, fnOutput, xmlDoc, xmlResult, handler, upstream, cur, isClosed, idle, state, finReason, hookFails,
                 lapses, cancelled, currentBlockIndex>>

\* reader.read() rejects: controller.error(error), then the finally block, whose
\* enqueues on the errored stream throw and are swallowed.
PoeReadError ==
  /\ handler = "poe"
  /\ pc = "read"
  /\ ~isClosed
  /\ blockTracker' = ensureAllBlocksStopped(blockTracker)
  /\ ending' = "error"
  /\ pingOn' = FALSE
  /\ ctrl' = "errored"
  /\ pc' = "end"
  /\ UNCHANGED <<fnInput, fnOutput, xmlDoc, xmlResult, handler, upstream, cur, out, isClosed, idle, state, finReason,
                 hookFails, lapses, cancelled, currentBlockIndex>>

PoeNext ==
  \/ \E c \in Chunks : PoeReadLine(c)
  \/ PoeDone
  \/ PoeEOF
  \/ PoeReadError

----------------------------------------------------------------------------
\* XMLToolCallParser as a function of its input: the parser, and the translation
\* of one text delta, are applied to the text of a document.

Parameter(n, v) == [name |-> n, value |-> v]

\* Parameter values, without and with surrounding white space.
ParameterValues == {<<"v">>, <<" ", "v", " ">>}

\* The parameters of one invoke: at most one of each name.
ParameterLists ==
  {<<>>}
  \cup {<<Parameter(n, v)>> : n \in {"k", "m"}, v \in ParameterValues}
  \cup {<<Parameter("k", v), Parameter("m", w)>> : v \in ParameterValues, w \in ParameterValues}
  \cup {<<Parameter("m", v), Parameter("k", w)>> : v \in ParameterValues, w \in ParameterValues}

InvokeElements == [name : {"f", "g"}, parameters : ParameterLists]

\* Text, a <function_calls> block with its invokes (closed by </function_calls>
\* when complete), text.
XmlDocs ==
  [pre : {<<>>, <<"t">>},
   invokes : UNION {[1..n -> InvokeElements] : n \in 0..MaxInvokes},
   post : {<<>>, <<"u">>},
   complete : BOOLEAN]

NoDoc == [pre |-> <<>>, invokes |-> <<>>, post |-> <<>>, complete |-> FALSE]

NoResult == [op |-> "", toolIndex |-> 0, calls |-> <<>>, text |-> <<>>, q |-> <<>>]

RECURSIVE RenderParameters(_)
RenderParameters(ps) ==
  IF ps = <<>> THEN <<>>
  ELSE <<IF Head(ps).name = "k" THEN "PS:k" ELSE "PS:m">> \o Head(ps).value \o <<"PE">>
       \o RenderParameters(Tail(ps))

RECURSIVE RenderInvokes(_)
RenderInvokes(is) ==
  IF is = <<>> THEN <<>>
  ELSE <<IF Head(is).name = "f" THEN "IS:f" ELSE "IS:g">>
       \o RenderParameters(Head(is).parameters) \o <<"IE">>
       \o RenderInvokes(Tail(is))

\* The text of a document.
Render(doc) ==
  doc.pre \o <<"FS">> \o RenderInvokes(doc.invokes)
  \o (IF doc.complete THEN <<"FE">> ELSE <<>>) \o doc.post

xmlText == Render(xmlDoc)

\* The translator states that meet the text delta: a fresh response, one with an
\* open text block, one with an open tool_use block.
FreshMachine == [bt |-> NewTracker, cbi |-> -1, q |-> <<>>]

PriorMachines ==
  { FreshMachine,
    PoeHandleEvent(FreshMachine, Chunk(CC, FALSE, <<"t">>, <<>>, "", NoUsage), FALSE),
    PoeHandleEvent(FreshMachine, ToolChunk(1, "f", <<"x">>), FALSE) }

\* XMLToolCallParser.parseToolCalls(text, toolIndex)
XmlParse(toolIndex) ==
  /\ xmlResult = NoResult
  /\ xmlResult' = [NoResult EXCEPT !.op = "parse", !.toolIndex = toolIndex,
                                   !.calls = parseToolCalls(xmlText, toolIndex)]
  /\ UNCHANGED <<fnInput, fnOutput, xmlDoc, handler, pc, upstream, cur, out, isClosed, ctrl, pingOn, idle,
                 state, finReason, hookFails, lapses, ending, cancelled, blockTracker,
                 currentBlockIndex>>

\* XMLToolCallParser.removeToolCalls(text)
XmlRemove ==
  /\ xmlResult = NoResult
  /\ xmlResult' = [NoResult EXCEPT !.op = "remove", !.text = removeToolCalls(xmlText)]
  /\ UNCHANGED <<fnInput, fnOutput, xmlDoc, handler, pc, upstream, cur, out, isClosed, ctrl, pingOn, idle,
                 state, finReason, hookFails, lapses, ending, cancelled, blockTracker,
                 currentBlockIndex>>

\* The text arrives as one text delta of the Poe translator in state prior; q is
\* what the translator writes for it.
XmlStream(prior) ==
  /\ xmlResult = NoResult
  /\ xmlResult' =
       [NoResult EXCEPT
          !.op = "stream",
          !.q = PoeHandleEvent([prior EXCEPT !.q = <<>>],
                               Chunk(CC, FALSE, xmlText, <<>>, "", NoUsage), FALSE).q]
  /\ UNCHANGED <<fnInput, fnOutput, xmlDoc, handler, pc, upstream, cur, out, isClosed, ctrl, pingOn, idle,
                 state, finReason, hookFails, lapses, ending, cancelled, blockTracker,
                 currentBlockIndex>>

ParserInit ==
  /\ handler = "poe"
  /\ pc = "read"
  /\ upstream = <<>>
  /\ cur = NoChunk
  /\ out = <<MessageStart, Ping>>
  /\ isClosed = FALSE
  /\ ctrl = "open"
  /\ pingOn = TRUE
  /\ idle = FALSE
  /\ state = createStreamingState
  /\ finReason = ""
  /\ hookFails = 0
  /\ lapses = 0
  /\ ending = ""
  /\ cancelled = FALSE
  /\ blockTracker = NewTracker
  /\ currentBlockIndex = -1
  /\ xmlDoc \in XmlDocs
  /\ xmlResult = NoResult
  /\ fnInput = NoValue
  /\ fnOutput = NoValue

ParserNext ==
  \/ \E toolIndex \in {0, 1} : XmlParse(toolIndex)
  \/ XmlRemove
  \/ \E prior \in PriorMachines : XmlStream(prior)

ParserSpec == ParserInit /\ [][ParserNext]_vars

----------------------------------------------------------------------------
\* The state after start() has sent message_start and the first ping and has
\* installed the ticker.
Init ==
  /\ handler \in {"compat", "poe"}
  /\ pc = "read"
  /\ upstream = <<>>
  /\ cur = NoChunk
  /\ out = <<MessageStart, Ping>>
  /\ isClosed = FALSE
  /\ ctrl = "open"
  /\ pingOn = TRUE
  /\ idle = FALSE
  /\ state = createStreamingState
  /\ finReason = ""
  /\ hookFails = 0
  /\ lapses = 0
  /\ ending = ""
  /\ cancelled = FALSE
  /\ blockTracker = NewTracker
  /\ currentBlockIndex = -1
  /\ xmlDoc = NoDoc
  /\ xmlResult = NoResult
  /\ fnInput = NoValue
  /\ fnOutput = NoValue

Next ==
  \/ CompatNext
  \/ PoeNext
  \/ TimePasses
  \/ PingTick

Spec == Init /\ [][Next]_vars

----------------------------------------------------------------------------
\* Reading the response stream.

Pos(q, type) == {p \in DOMAIN q : q[p].type = type}

StartPos(q) == Pos(q, "content_block_start")

StopsOf(q, i) == {p \in Pos(q, "content_block_stop") : q[p].index = i}

\* The block started at position p of q is open at the end of q.
OpenAtEnd(q, p) == \A s \in StopsOf(q, q[p].index) : s < p

\* The upstream ended in the given way, no hook threw and the client stayed.
NormalEnd(how) == pc = "end" /\ ending = how /\ hookFails = 0 /\ ~cancelled

\* Every started block has exactly one stop, after its start and before
\* message_stop, and every stop has an earlier start of the same index.
BlocksMatched(q) ==
  /\ \A p \in StartPos(q) :
       /\ Cardinality(StopsOf(q, q[p].index)) = 1
       /\ \A s \in StopsOf(q, q[p].index) :
            s > p /\ \A ms \in Pos(q, "message_stop") : s < ms
  /\ \A s \in Pos(q, "content_block_stop") :
       \E p \in StartPos(q) : p < s /\ q[p].index = q[s].index

\* C1: in both translators, when the upstream ends with [DONE] (no read error, no
\* cancel, hooks succeed), every content_block_start(i) is followed by exactly one
\* content_block_stop(i) before message_stop and no stop lacks an earlier start.
C1_StartStopMatched == NormalEnd("done") => BlocksMatched(out)

\* The number of content_block_start events among the first p events of q.
StartsBefore(q, p) == Cardinality({s \in StartPos(q) : s < p})

\* C2: in both translators, for any upstream, the k-th emitted content_block_start
\* (k = 0, 1, ...) carries index k.
C2_IndicesSequential ==
  \A p \in StartPos(out) : out[p].index = StartsBefore(out, p)

\* C2 witness: three blocks of mixed kinds were started.
C2_Witness ==
  /\ Cardinality(StartPos(out)) = 3
  /\ \E p, r \in StartPos(out) : out[p].kind = "text" /\ out[r].kind = "tool_use" /\ r < p

\* C3: createStreamingResponseHandler, upstream ended by [DONE] or by EOF (no read
\* error, no cancel, hooks succeed): message_start is first, there is exactly one
\* message_delta and one message_stop, the delta right before the stop, and only
\* the single [DONE] marker follows message_stop.
C3_CompatFraming ==
  (handler = "compat" /\ (NormalEnd("done") \/ NormalEnd("eof"))) =>
    /\ out[1] = MessageStart
    /\ Pos(out, "message_start") = {1}
    /\ Pos(out, "message_delta") = {Len(out) - 2}
    /\ Pos(out, "message_stop") = {Len(out) - 1}
    /\ Pos(out, "[DONE]") = {Len(out)}

\* C3 witness: a response that ended at EOF after a ping of the ticker.
C3_Witness ==
  /\ handler = "compat" /\ NormalEnd("eof")
  /\ Cardinality(Pos(out, "ping")) = 2
  /\ StartPos(out) # {}

\* The finish_reason values carried by the chunks the translator has read.
FinishSeen ==
  {upstream[k].finish : k \in {j \in DOMAIN upstream :
      upstream[j].valid /\ upstream[j].hasChoice /\ upstream[j].finish # ""}}

\* The stop_reason the response should carry for an upstream finish_reason.
ExpectedStopReason(fin) ==
  CASE fin = "tool_calls" -> "tool_use"
    [] fin = "length" -> "max_tokens"
    [] OTHER -> "end_turn"

\* C4: createStreamingResponseHandler: the stop_reason of message_delta reflects
\* the finish_reason seen on the upstream chunks: tool_calls gives tool_use, stop
\* gives end_turn, length gives max_tokens.
C4_StopReasonReflectsFinish ==
  (handler = "compat" /\ (NormalEnd("done") \/ NormalEnd("eof"))) =>
    \A fin \in {"tool_calls", "stop", "length"} :
      FinishSeen = {fin} =>
        \A p \in Pos(out, "message_delta") : out[p].stop_reason = ExpectedStopReason(fin)

\* C5: PoeHandler.createStreamingResponse: when the upstream ends with [DONE],
\* exactly one message_delta is emitted and it precedes message_stop.
C5_PoeOneMessageDelta ==
  (handler = "poe" /\ NormalEnd("done")) =>
    /\ Cardinality(Pos(out, "message_delta")) = 1
    /\ \A d \in Pos(out, "message_delta") : \A ms \in Pos(out, "message_stop") : d < ms

\* C6: in both translators, at EOF without [DONE] (no read error) termination is
\* as on [DONE]: every open block gets its content_block_stop and message_stop is
\* then emitted as the last protocol event.
C6_EofTerminatesLikeDone ==
  NormalEnd("eof") =>
    /\ BlocksMatched(out)
    /\ \E ms \in Pos(out, "message_stop") :
         \A p \in DOMAIN out : p > ms => out[p].type = "[DONE]"

\* C7: in both translators, a tool_use block that starts after a text block
\* started finds that text block stopped before its own start and gets a higher
\* index; text deltas emitted after the tool_use start belong to a text block
\* started after it, at a still higher index.
C7_TextStoppedBeforeTool ==
  \A p \in StartPos(out) : out[p].kind = "tool_use" =>
    /\ \A t \in StartPos(out) : (out[t].kind = "text" /\ t < p) =>
         /\ \E s \in StopsOf(out, out[t].index) : t < s /\ s < p
         /\ out[p].index > out[t].index
    /\ \A d \in Pos(out, "content_block_delta") :
         (d > p /\ out[d].kind = "text_delta") =>
           /\ out[d].index > out[p].index
           /\ \E t \in StartPos(out) :
                p < t /\ t < d /\ out[t].kind = "text" /\ out[t].index = out[d].index

\* C7 witness: a text block stopped right before a tool_use start, and a text
\* delta emitted after that start.
C7_Witness ==
  \E t, p \in StartPos(out) :
    /\ out[t].kind = "text" /\ out[p].kind = "tool_use" /\ t < p
    /\ p - 1 \in StopsOf(out, out[t].index)
    /\ \E d \in Pos(out, "content_block_delta") : d > p /\ out[d].kind = "text_delta"

\* The indices of the content_block_stop events of q, in order.
RECURSIVE StopIndices(_)
StopIndices(q) ==
  IF q = <<>> THEN <<>>
  ELSE (IF Head(q).type = "content_block_stop" THEN <<Head(q).index>> ELSE <<>>)
       \o StopIndices(Tail(q))

Ascending(seq) == \A a, b \in DOMAIN seq : a < b => seq[a] < seq[b]

\* C8: in both translators, the content_block_stop events written by the
\* termination step (on [DONE] or EOF) come in ascending block index order.
C8_TerminationStopsAscending ==
  [][ (pc = "read" /\ pc' # "read" /\ ending' \in {"done", "eof"}) =>
        Ascending(StopIndices(SubSeq(out', Len(out) + 1, Len(out')))) ]_vars

OpenBlocks(q, kind) == {p \in StartPos(q) : q[p].kind = kind /\ OpenAtEnd(q, p)}

\* C9: in both translators, at every point of the event stream at most one text
\* block and at most one thinking block is open.
C9_OneOpenTextBlock ==
  /\ Cardinality(OpenBlocks(out, "text")) <= 1
  /\ Cardinality(OpenBlocks(out, "thinking")) <= 1

\* C9 witness: a second text block is open next to an open tool_use block, the
\* first text block having been stopped.
C9_Witness ==
  /\ Cardinality(OpenBlocks(out, "text")) = 1
  /\ Cardinality(OpenBlocks(out, "tool_use")) >= 1
  /\ Cardinality({p \in StartPos(out) : out[p].kind = "text"}) = 2

\* The chunks whose translation is complete.
Processed == IF pc = "hook" THEN SubSeq(upstream, 1, Len(upstream) - 1) ELSE upstream

\* All tool_calls elements of the translated chunks, in arrival order.
RECURSIVE AllToolCalls(_)
AllToolCalls(up) ==
  IF up = <<>> THEN <<>>
  ELSE (IF Head(up).valid /\ Head(up).hasChoice THEN Head(up).tool_calls ELSE <<>>)
       \o AllToolCalls(Tail(up))

\* The upstream tool-call indices in the order of their first delta with a name.
RECURSIVE NamedIndices(_, _)
NamedIndices(tcs, seen) ==
  IF tcs = <<>> THEN <<>>
  ELSE IF Head(tcs).name # "" /\ Head(tcs).index \notin seen
    THEN <<Head(tcs).index>> \o NamedIndices(Tail(tcs), seen \cup {Head(tcs).index})
    ELSE NamedIndices(Tail(tcs), seen)

\* The arguments fragments sent for index i from its first named delta onward.
RECURSIVE ArgsSent(_, _, _)
ArgsSent(tcs, i, named) ==
  IF tcs = <<>> THEN <<>>
  ELSE IF Head(tcs).index = i
    THEN (IF named \/ Head(tcs).name # "" THEN Head(tcs).arguments ELSE <<>>)
         \o ArgsSent(Tail(tcs), i, named \/ Head(tcs).name # "")
    ELSE ArgsSent(Tail(tcs), i, named)

\* The block indices of the tool_use starts of q, in order.
RECURSIVE ToolStarts(_)
ToolStarts(q) ==
  IF q = <<>> THEN <<>>
  ELSE (IF Head(q).type = "content_block_start" /\ Head(q).kind = "tool_use"
          THEN <<Head(q).index>> ELSE <<>>)
       \o ToolStarts(Tail(q))

\* The partial_json strings emitted for block b, concatenated in emission order.
RECURSIVE PartialJson(_, _)
PartialJson(q, b) ==
  IF q = <<>> THEN <<>>
  ELSE (IF Head(q).type = "content_block_delta" /\ Head(q).kind = "input_json_delta"
           /\ Head(q).index = b
          THEN Head(q).data ELSE <<>>)
       \o PartialJson(Tail(q), b)

RECURSIVE LastUsage(_)
LastUsage(up) ==
  IF up = <<>> THEN 0
  ELSE IF up[Len(up)].valid /\ up[Len(up)].usage # NoUsage THEN up[Len(up)].usage
  ELSE LastUsage(SubSeq(up, 1, Len(up) - 1))

\* C11: createStreamingResponseHandler: the usage object of message_delta holds
\* output_tokens and nothing else, and its value is the completion_tokens of the
\* most recent upstream chunk that carried usage, 0 when none did.
C11_UsageFromLastChunk ==
  handler = "compat" =>
    \A p \in Pos(out, "message_delta") :
      /\ out[p].usage = {"output_tokens"}
      /\ out[p].output_tokens = LastUsage(upstream)

\* C11 witness: two chunks carried different usage and the message_delta reports
\* the later one.
C11_Witness ==
  /\ handler = "compat"
  /\ \E i, j \in DOMAIN upstream :
       i < j /\ upstream[i].usage = 5 /\ upstream[j].usage = 2
  /\ \E p \in Pos(out, "message_delta") : out[p].output_tokens = 2

C13_BadJsonSkipped ==
  [][ (Len(upstream') = Len(upstream) + 1 /\ ~upstream'[Len(upstream')].valid) =>
        /\ out' = out
        /\ state' = state
        /\ blockTracker' = blockTracker
        /\ currentBlockIndex' = currentBlockIndex
        /\ pc' = pc /\ ctrl' = ctrl /\ isClosed' = isClosed /\ ending' = ending ]_vars

\* C13 witness: a bad line arrived between two text chunks and the text block
\* opened by the first received the delta of the second.
C13_Witness ==
  /\ Len(upstream) = 3
  /\ upstream[1].content = <<"t">> /\ ~upstream[2].valid /\ upstream[3].content = <<"t">>
  /\ upstream[1].tool_calls = <<>> /\ upstream[3].tool_calls = <<>>
  /\ Cardinality(StartPos(out)) = 1
  /\ Cardinality(Pos(out, "content_block_delta")) = 2

\* C14: createStreamingResponseHandler: once the client has cancelled the response
\* stream nothing more is enqueued on it (no SSE event, no [DONE] marker),
\* whatever the read loop, the ticker or finalize() do afterwards, and the ping
\* ticker is stopped.
C14_NothingAfterCancel ==
  [][ (handler = "compat" /\ cancelled) => (out' = out /\ ~pingOn /\ ~pingOn') ]_vars

\* C14 witness: after the cancel the translator allocated a block whose start was
\* not written, and finalize() ran to its end.
C14_Witness ==
  /\ handler = "compat" /\ cancelled /\ pc = "end"
  /\ state.curIdx > Cardinality(StartPos(out))
  /\ Pos(out, "[DONE]") = {}

\* C15: when the client disconnects, the translator cancels the upstream fetch:
\* after the disconnect no further line is read from the upstream body.
C15_CancelStopsReading ==
  [][ cancelled => upstream' = upstream ]_vars

\* C16: createStreamingResponseHandler: once the upstream has ended ([DONE], EOF
\* or a read error) and start() has settled, so that no later step of the handler
\* can do it, the response stream is closed and the ping ticker is cleared,
\* whatever the middleware hooks did.
C16_ClosedWhenSettled ==
  (handler = "compat" /\ pc = "end") => (ctrl = "closed" /\ ~pingOn)

\* C17: in both translators the ticker pings exactly when no other event was
\* written during the preceding second.  The ticker pings when idle holds, so
\* while it runs every step that writes an event other than a ping must reset
\* idle (tool_use starts and input_json_deltas as much as text deltas), and a
\* step that reads an upstream line without writing an event must leave idle as
\* it was.
C17_PingIffNothingWritten ==
  [][ (pingOn /\ pingOn') =>
        /\ (Len(out') > Len(out) /\ out'[Len(out')].type # "ping") => ~idle'
        /\ (upstream' # upstream /\ out' = out) => idle' = idle ]_vars

\* es occurs in q as a subsequence (in order, other events may lie between).
RECURSIVE Embeds(_, _)
Embeds(es, q) ==
  IF es = <<>> THEN TRUE
  ELSE IF q = <<>> THEN FALSE
  ELSE IF Head(es) = Head(q) THEN Embeds(Tail(es), Tail(q))
  ELSE Embeds(es, Tail(q))

\* C18: PoeHandler.createStreamingResponse: a text chunk holding text P, one
\* complete <function_calls> block with one <invoke>, and text S, arriving first
\* in a response ended by [DONE], is written as: a text block with P, stopped; a
\* tool_use block at the next index with an input_json_delta holding the JSON of
\* the parameters, stopped; a text block at the next index with S; message_stop
\* after all of them.
C18_XmlChunkOrder ==
  (handler = "poe" /\ NormalEnd("done") /\ Len(upstream) >= 1 /\ upstream[1] = XmlChunk) =>
    Embeds(<< BlockStart(0, "text"), BlockDelta(0, "text_delta", <<"t">>), BlockStop(0),
              BlockStart(1, "tool_use"),
              BlockDelta(1, "input_json_delta",
                         JsonStringify(<<Parameter("k", <<"v">>)>>)),
              BlockStop(1),
              BlockStart(2, "text"), BlockDelta(2, "text_delta", <<"u">>),
              MessageStop >>, out)

\* The tool calls a document describes: one per invoke, in document order, with
\* the JSON of its parameter map as arguments.
ToolCallsOf(doc, toolIndex) ==
  [i \in DOMAIN doc.invokes |->
     ToolCall(toolIndex + i - 1, doc.invokes[i].name,
              JsonStringify(doc.invokes[i].parameters))]

\* C19: XMLToolCallParser: for a text with exactly one complete well-formed
\* <function_calls> block of n >= 1 invokes, parseToolCalls returns the n tool
\* calls in document order with indices toolIndex..toolIndex+n-1, the invoke's
\* name and the JSON of its parameter map, and removeToolCalls returns the text
\* without the block.
C19_ParserRoundTrip ==
  (xmlDoc.complete /\ Len(xmlDoc.invokes) >= 1) =>
    /\ xmlResult.op = "parse" => xmlResult.calls = ToolCallsOf(xmlDoc, xmlResult.toolIndex)
    /\ xmlResult.op = "remove" => xmlResult.text = xmlDoc.pre \o xmlDoc.post

\* C20: XMLToolCallParser and PoeHandler.transformChunk: for a text with the
\* <function_calls> marker and no </function_calls> marker parseToolCalls returns
\* null, removeToolCalls returns the text, and the text delta that carries it is
\* written as one text delta with the whole text, in the open text block or a
\* newly started one, with no tool_use block started.
C20_IncompleteBlockIsText ==
  (xmlResult.op # "" /\ ~xmlDoc.complete) =>
    /\ xmlResult.op = "parse" => xmlResult.calls = <<>>
    /\ xmlResult.op = "remove" => xmlResult.text = xmlText
    /\ xmlResult.op = "stream" =>
         /\ \A p \in StartPos(xmlResult.q) : xmlResult.q[p].kind = "text"
         /\ Cardinality(Pos(xmlResult.q, "content_block_delta")) = 1
         /\ \A d \in Pos(xmlResult.q, "content_block_delta") :
              xmlResult.q[d].kind = "text_delta" /\ xmlResult.q[d].data = xmlText
         /\ Pos(xmlResult.q, "content_block_stop") = {}

\* C20 witness: a text with two unclosed invokes met a translator with an open
\* tool_use block; a text block was started for it.
C20_Witness ==
  /\ ~xmlDoc.complete /\ Len(xmlDoc.invokes) = 2 /\ xmlDoc.pre # <<>>
  /\ xmlResult.op = "stream"
  /\ Len(xmlResult.q) = 2
  /\ xmlResult.q[1] = BlockStart(1, "text")

\* C21: createStreamingResponseHandler (hooks succeed, the client stayed): once a
\* delta with reasoning text has been translated, a thinking block has been
\* started and a thinking_delta written for its index, and a text block started
\* later finds the thinking block stopped.
C21_ReasoningOpensThinking ==
  (handler = "compat" /\ hookFails = 0 /\ ~cancelled
     /\ \E k \in DOMAIN Processed : Processed[k].valid /\ Processed[k].reasoning # NoText) =>
    \E p \in StartPos(out) :
      /\ out[p].kind = "thinking"
      /\ \E d \in Pos(out, "content_block_delta") :
           d > p /\ out[d].kind = "thinking_delta" /\ out[d].index = out[p].index
      /\ \A t \in StartPos(out) : (t > p /\ out[t].kind = "text") =>
           \E s \in StopsOf(out, out[p].index) : p < s /\ s < t

----------------------------------------------------------------------------
\* Request side (handlers/shared/openai-compat.ts): filterIdentity and
\* convertMessagesToOpenAI.  A system prompt is a sequence of tokens:
\*   "ID"  You are Claude Code, Anthropic's official CLI
\*   "PW"  You are powered by the model named        "."  a full stop
\*   "BS"  <claude_background_info>                  "BE" </claude_background_info>
\*   "NL"  a newline                                 any other token: other text

\* Tokens of one system prompt given to filterIdentity.
MaxPrompt == 4
\* Turns of one request, and content blocks of one turn.
MaxTurns == 2
MaxBlocks == 2

\* .replace(/You are Claude Code, Anthropic's official CLI/gi, "This is ...")
ReplaceIdentity(s) == [i \in DOMAIN s |-> IF s[i] = "ID" THEN "ID2" ELSE s[i]]

\* .replace(/You are powered by the model named [^.]+\./gi, "You are powered
\* by an AI model."): the phrase, at least one character that is no full stop,
\* then the first full stop.
RECURSIVE ReplacePoweredBy(_)
ReplacePoweredBy(s) ==
  IF s = <<>> THEN <<>>
  ELSE LET dot == IndexFrom(s, {"."}, 2)
       IN IF Head(s) = "PW" /\ dot > 2
            THEN <<"PW2">> \o ReplacePoweredBy(SubSeq(s, dot + 1, Len(s)))
            ELSE <<Head(s)>> \o ReplacePoweredBy(Tail(s))

\* .replace(/<claude_background_info>[\s\S]*?<\/claude_background_info>/gi, "")
RECURSIVE RemoveBackgroundInfo(_)
RemoveBackgroundInfo(s) ==
  IF s = <<>> THEN <<>>
  ELSE LET close == IndexFrom(s, {"BE"}, 2)
       IN IF Head(s) = "BS" /\ close > 0
            THEN RemoveBackgroundInfo(SubSeq(s, close + 1, Len(s)))
            ELSE <<Head(s)>> \o RemoveBackgroundInfo(Tail(s))

\* The length of the run of newlines at the head of s.
RECURSIVE NewlineRun(_)
NewlineRun(s) ==
  IF s # <<>> /\ Head(s) = "NL" THEN 1 + NewlineRun(Tail(s)) ELSE 0

\* .replace(/\n{3,}/g, "\n\n")
RECURSIVE CollapseNewlines(_)
CollapseNewlines(s) ==
  IF s = <<>> THEN <<>>
  ELSE LET run == NewlineRun(s)
       IN IF run >= 3
            THEN <<"NL", "NL">> \o CollapseNewlines(SubSeq(s, run + 1, Len(s)))
            ELSE IF run >= 1
              THEN SubSeq(s, 1, run) \o CollapseNewlines(SubSeq(s, run + 1, Len(s)))
              ELSE <<Head(s)>> \o CollapseNewlines(Tail(s))

\* .replace(/^/, "IMPORTANT: You are NOT Claude. ...\n\n")
PrependNotice(s) == <<"IMPORTANT", "NL", "NL">> \o s

filterIdentity(content) ==
  PrependNotice(CollapseNewlines(RemoveBackgroundInfo(
    ReplacePoweredBy(ReplaceIdentity(content)))))

\* Content blocks of the Anthropic request.  id is tool_use_id of a tool_result
\* and id of a tool_use; text is the text of a text block, the content of a
\* tool_result and the input of a tool_use.
Block(type, text, id) == [type |-> type, text |-> text, id |-> id]

ToolIds == {"t1", "t2"}

UserBlocks ==
  {Block("text", "a", ""), Block("image", "png", "")}
    \cup {Block("tool_result", r, id) : r \in {"r1", "r2"}, id \in ToolIds}

AssistantBlocks ==
  {Block("text", "a", "")}
    \cup {Block("tool_use", in, id) : in \in {"in1", "in2"}, id \in ToolIds}

SeqsUpTo(S, n) == UNION {[1..k -> S] : k \in 0..n}

\* One turn: content is an array of blocks, or a string (text).
Turn(role, isArray, blocks, text) ==
  [role |-> role, isArray |-> isArray, blocks |-> blocks, text |-> text]

Turns ==
  {Turn("user", TRUE, b, "") : b \in SeqsUpTo(UserBlocks, MaxBlocks)}
    \cup {Turn("assistant", TRUE, b, "") : b \in SeqsUpTo(AssistantBlocks, MaxBlocks)}
    \cup {Turn(r, FALSE, <<>>, "a") : r \in {"user", "assistant", "system"}}

\* The calls convertMessagesToOpenAI(req, modelId, filterIdentity) of the model.
Requests ==
  [system : {NoText, <<"s">>}, modelId : {"llama", "grok"},
   messages : SeqsUpTo(Turns, MaxTurns)]

\* JSON.stringify(value), told apart from the value itself.
Stringify(value) == <<"json", value>>

\* One OpenAI message.  kind tells the type of content: "string" (text),
\* "parts" (parts), "null", or "undefined"; turn is the index of the input turn
\* the message was made from (0 for the system message), kept for the properties.
Message(role, kind, text, parts, tool_calls, tool_call_id, turn) ==
  [role |-> role, kind |-> kind, text |-> text, parts |-> parts,
   tool_calls |-> tool_calls, tool_call_id |-> tool_call_id, turn |-> turn]

\* Mutant of KeepFirst: the last block with an id wins.
RECURSIVE KeepLast(_, _, _)
KeepLast(blocks, type, seen) ==
  IF blocks = <<>> THEN <<>>
  ELSE LET block == Head(blocks)
           later == {i \in 2..Len(blocks) : blocks[i].type = type /\ blocks[i].id = block.id}
       IN IF block.type # type \/ later # {} THEN KeepLast(Tail(blocks), type, seen)
          ELSE <<block>> \o KeepLast(Tail(blocks), type, seen)

\* The first-wins filter of both loops: the blocks of the given type whose id
\* was not seen earlier among blocks of that type.
RECURSIVE KeepFirst(_, _, _)
KeepFirst(blocks, type, seen) ==
  IF blocks = <<>> THEN <<>>
  ELSE LET block == Head(blocks)
       IN IF block.type # type THEN KeepFirst(Tail(blocks), type, seen)
          ELSE IF block.id \in seen THEN KeepFirst(Tail(blocks), type, seen)
          ELSE <<block>> \o KeepFirst(Tail(blocks), type, seen \cup {block.id})

\* The contentParts of a user turn.
RECURSIVE ContentParts(_)
ContentParts(blocks) ==
  IF blocks = <<>> THEN <<>>
  ELSE LET block == Head(blocks)
       IN (CASE block.type = "text" -> <<[type |-> "text", data |-> block.text]>>
             [] block.type = "image" -> <<[type |-> "image_url", data |-> block.text]>>
             [] OTHER -> <<>>)
          \o ContentParts(Tail(blocks))

\* strings.join(" ")
RECURSIVE Join(_)
Join(strings) ==
  IF strings = <<>> THEN <<>>
  ELSE IF Len(strings) = 1 THEN <<strings[1]>>
  ELSE <<strings[1], " ">> \o Join(Tail(strings))

\* Mutant of processUserMessage: the user message goes before the tool messages.
processUserMessagePartsFirst(msg, messages, turn) ==
  IF msg.isArray
    THEN LET contentParts == ContentParts(msg.blocks)
             kept == KeepFirst(msg.blocks, "tool_result", {})
             toolResults ==
               [i \in DOMAIN kept |->
                  Message("tool", "string", <<kept[i].text>>, <<>>, <<>>, kept[i].id, turn)]
         IN messages
              \o (IF contentParts # <<>>
                    THEN <<Message("user", "parts", <<>>, contentParts, <<>>, "", turn)>>
                    ELSE <<>>)
              \o toolResults
    ELSE Append(messages, Message("user", "string", <<msg.text>>, <<>>, <<>>, "", turn))

processUserMessage(msg, messages, turn) ==
  IF msg.isArray
    THEN LET contentParts == ContentParts(msg.blocks)
             kept == KeepFirst(msg.blocks, "tool_result", {})
             toolResults ==
               [i \in DOMAIN kept |->
                  Message("tool", "string", <<kept[i].text>>, <<>>, <<>>, kept[i].id, turn)]
         IN messages \o toolResults
              \o (IF contentParts # <<>>
                    THEN <<Message("user", "parts", <<>>, contentParts, <<>>, "", turn)>>
                    ELSE <<>>)
    ELSE Append(messages, Message("user", "string", <<msg.text>>, <<>>, <<>>, "", turn))

processAssistantMessage(msg, messages, turn) ==
  IF msg.isArray
    THEN LET texts == SelectSeq(msg.blocks, LAMBDA b : b.type = "text")
             strings == [i \in DOMAIN texts |-> texts[i].text]
             kept == KeepFirst(msg.blocks, "tool_use", {})
             toolCalls ==
               [i \in DOMAIN kept |->
                  [id |-> kept[i].id, type |-> "function", name |-> "f",
                   arguments |-> Stringify(kept[i].text)]]
             kind == IF strings # <<>> THEN "string"
                     ELSE IF toolCalls # <<>> THEN "null" ELSE "undefined"
         IN IF kind # "undefined" \/ toolCalls # <<>>
              THEN Append(messages,
                          Message("assistant", kind, Join(strings), <<>>, toolCalls, "", turn))
              ELSE messages
    ELSE Append(messages, Message("assistant", "string", <<msg.text>>, <<>>, <<>>, "", turn))

\* The loop over req.messages, from turn number turn on.
RECURSIVE ConvertTurns(_, _, _)
ConvertTurns(turns, messages, turn) ==
  IF turn > Len(turns) THEN messages
  ELSE LET msg == turns[turn]
       IN ConvertTurns(turns,
                       CASE msg.role = "user" -> processUserMessage(msg, messages, turn)
                         [] msg.role = "assistant" -> processAssistantMessage(msg, messages, turn)
                         [] OTHER -> messages,
                       turn + 1)

GrokNotice == <<"GROK">>

convertMessagesToOpenAI(req) ==
  LET system == IF req.system # NoText
                  THEN <<Message("system", "string", filterIdentity(req.system),
                                 <<>>, <<>>, "", 0)>>
                  ELSE <<>>
      grok == IF req.modelId = "grok"
                THEN IF system # <<>>
                       THEN <<[system[1] EXCEPT !.text = @ \o <<"NL", "NL">> \o GrokNotice]>>
                       ELSE <<Message("system", "string", GrokNotice, <<>>, <<>>, "", 0)>>
                ELSE system
  IN ConvertTurns(req.messages, grok, 1)

\* The state of the streaming side while a request-side function is called.
NoResponse ==
  /\ handler = "compat"
  /\ pc = "read"
  /\ upstream = <<>>
  /\ cur = NoChunk
  /\ out = <<>>
  /\ isClosed = FALSE
  /\ ctrl = "open"
  /\ pingOn = FALSE
  /\ idle = FALSE
  /\ state = createStreamingState
  /\ finReason = ""
  /\ hookFails = 0
  /\ lapses = 0
  /\ ending = ""
  /\ cancelled = FALSE
  /\ blockTracker = NewTracker
  /\ currentBlockIndex = -1
  /\ xmlDoc = NoDoc
  /\ xmlResult = NoResult

\* filterIdentity(s), and filterIdentity of what it returned.
FilterInit ==
  /\ NoResponse
  /\ fnInput \in SeqsUpTo({"ID", "PW", ".", "BS", "BE", "NL", "x"}, MaxPrompt)
  /\ fnOutput = NoValue

FilterOnce ==
  /\ fnOutput = NoValue
  /\ fnOutput' = <<filterIdentity(fnInput)>>
  /\ UNCHANGED <<streamVars, fnInput>>

FilterAgain ==
  /\ Len(fnOutput) = 1
  /\ fnOutput' = Append(fnOutput, filterIdentity(fnOutput[1]))
  /\ UNCHANGED <<streamVars, fnInput>>

FilterNext ==
  \/ FilterOnce
  \/ FilterAgain

FilterSpec == FilterInit /\ [][FilterNext]_vars

\* convertMessagesToOpenAI(req, modelId, filterIdentity) as called by
\* LocalProviderHandler.handle.
ConvertInit ==
  /\ NoResponse
  /\ fnInput \in Requests
  /\ fnOutput = NoValue

Convert ==
  /\ fnOutput = NoValue
  /\ fnOutput' = <<convertMessagesToOpenAI(fnInput)>>
  /\ UNCHANGED <<streamVars, fnInput>>

ConvertNext == Convert

ConvertSpec == ConvertInit /\ [][ConvertNext]_vars

----------------------------------------------------------------------------
\* Properties of the request conversion.

\* The elements of a finite set of numbers in ascending order.
Sorted(P) ==
  CHOOSE f \in [1..Cardinality(P) -> P] : \A i, j \in 1..Cardinality(P) : i < j => f[i] < f[j]

\* The positions of the blocks of a type that no earlier block of the type
\* shares its id with.
FirstOfId(blocks, type) ==
  {i \in DOMAIN blocks :
     /\ blocks[i].type = type
     /\ \A j \in 1..(i - 1) : ~(blocks[j].type = type /\ blocks[j].id = blocks[i].id)}

\* The positions in the payload of the messages made from turn number turn.
MadeFrom(messages, turn) == {p \in DOMAIN messages : messages[p].turn = turn}

\* The requests that were converted, with the payload built for each.
Converted == fnOutput # NoValue

\* C22: convertMessagesToOpenAI: the output messages follow the order of the
\* input turns; a user turn with tool_result blocks yields one role tool message
\* per kept tool_result, in block order, all before the single user message that
\* carries the turn's text and image parts; an assistant turn with tool_use
\* blocks yields one assistant message whose tool_calls list the kept tool_use
\* blocks in order with arguments as a JSON string, and whose content is null
\* when the turn has no text block.
C22_ConvertOrder ==
  Converted =>
    LET messages == fnOutput[1]
        turns == fnInput.messages
    IN /\ \A p, q \in DOMAIN messages : p < q => messages[p].turn <= messages[q].turn
       /\ \A t \in DOMAIN turns :
            LET made == MadeFrom(messages, t)
                tools == {p \in made : messages[p].role = "tool"}
                users == {p \in made : messages[p].role = "user"}
            IN /\ (turns[t].role = "user" /\ turns[t].isArray) =>
                    LET kept == Sorted(FirstOfId(turns[t].blocks, "tool_result"))
                        rest == SelectSeq(turns[t].blocks,
                                          LAMBDA b : b.type \in {"text", "image"})
                    IN /\ made = tools \cup users
                       /\ Cardinality(tools) = Len(kept)
                       /\ \A k \in DOMAIN kept :
                            messages[Sorted(tools)[k]].tool_call_id = turns[t].blocks[kept[k]].id
                       /\ \A p \in tools, q \in users : p < q
                       /\ Cardinality(users) = (IF rest = <<>> THEN 0 ELSE 1)
                       /\ \A q \in users :
                            /\ messages[q].kind = "parts"
                            /\ Len(messages[q].parts) = Len(rest)
                            /\ \A k \in DOMAIN rest :
                                 /\ messages[q].parts[k].data = rest[k].text
                                 /\ messages[q].parts[k].type =
                                      (IF rest[k].type = "text" THEN "text" ELSE "image_url")
               /\ (turns[t].role = "assistant" /\ turns[t].isArray
                     /\ \E i \in DOMAIN turns[t].blocks : turns[t].blocks[i].type = "tool_use") =>
                    LET kept == Sorted(FirstOfId(turns[t].blocks, "tool_use"))
                    IN /\ Cardinality(made) = 1
                       /\ \A p \in made :
                            /\ messages[p].role = "assistant"
                            /\ Len(messages[p].tool_calls) = Len(kept)
                            /\ \A k \in DOMAIN kept :
                                 /\ messages[p].tool_calls[k].id = turns[t].blocks[kept[k]].id
                                 /\ messages[p].tool_calls[k].arguments =
                                      <<"json", turns[t].blocks[kept[k]].text>>
                            /\ (messages[p].kind = "null") <=>
                                 (\A i \in DOMAIN turns[t].blocks :
                                    turns[t].blocks[i].type # "text")

\* C22 witness: a converted user turn with a text part first and a tool_result
\* after it, following an assistant turn with a tool_use and no text.
C22_Witness ==
  /\ Converted
  /\ Len(fnInput.messages) = 2
  /\ fnInput.messages[1].role = "assistant" /\ fnInput.messages[1].isArray
  /\ Len(fnInput.messages[1].blocks) = 1
  /\ fnInput.messages[1].blocks[1].type = "tool_use"
  /\ fnInput.messages[2].role = "user" /\ fnInput.messages[2].isArray
  /\ Len(fnInput.messages[2].blocks) = 2
  /\ fnInput.messages[2].blocks[1].type = "text"
  /\ fnInput.messages[2].blocks[2].type = "tool_result"
  /\ Len(fnOutput[1]) = 3
  /\ fnOutput[1][2].role = "tool"
  /\ fnOutput[1][3].role = "user"

\* C23: convertMessagesToOpenAI: every role tool message of the payload has a
\* tool_call_id equal to the id of a tool_calls entry of an assistant message
\* placed earlier in the payload.
C23_ToolResultsMatched ==
  Converted =>
    LET messages == fnOutput[1]
    IN \A p \in DOMAIN messages :
         messages[p].role = "tool" =>
           \E q \in 1..(p - 1) :
             /\ messages[q].role = "assistant"
             /\ \E k \in DOMAIN messages[q].tool_calls :
                  messages[q].tool_calls[k].id = messages[p].tool_call_id

\* C24: convertMessagesToOpenAI: within one user turn no two role tool messages
\* share a tool_call_id, within one assistant message no two tool_calls share an
\* id; of the blocks of a turn with the same id the first is the one kept, and
\* an id that occurs in several turns is kept in each of them.
C24_DedupWithinTurn ==
  Converted =>
    LET messages == fnOutput[1]
        turns == fnInput.messages
    IN /\ \A p, q \in DOMAIN messages :
            (p # q /\ messages[p].role = "tool" /\ messages[q].role = "tool"
               /\ messages[p].turn = messages[q].turn) =>
              messages[p].tool_call_id # messages[q].tool_call_id
       /\ \A p \in DOMAIN messages : \A j, k \in DOMAIN messages[p].tool_calls :
            j # k => messages[p].tool_calls[j].id # messages[p].tool_calls[k].id
       /\ \A t \in DOMAIN turns : \A i \in DOMAIN turns[t].blocks :
            LET block == turns[t].blocks[i]
            IN /\ (turns[t].role = "user" /\ i \in FirstOfId(turns[t].blocks, "tool_result")) =>
                    \E p \in MadeFrom(messages, t) :
                      /\ messages[p].role = "tool"
                      /\ messages[p].tool_call_id = block.id
                      /\ messages[p].text = <<block.text>>
               /\ (turns[t].role = "assistant" /\ i \in FirstOfId(turns[t].blocks, "tool_use")) =>
                    \E p \in MadeFrom(messages, t) : \E k \in DOMAIN messages[p].tool_calls :
                      /\ messages[p].tool_calls[k].id = block.id
                      /\ messages[p].tool_calls[k].arguments = <<"json", block.text>>

\* C24 witness: a user turn with two tool_results of one id and different
\* contents was converted after a user turn with a tool_result of the same id.
C24_Witness ==
  /\ Converted
  /\ Len(fnInput.messages) = 2
  /\ \A t \in {1, 2} : fnInput.messages[t].role = "user" /\ fnInput.messages[t].isArray
  /\ Len(fnInput.messages[1].blocks) = 1
  /\ Len(fnInput.messages[2].blocks) = 2
  /\ \A i \in {1, 2} :
       /\ fnInput.messages[2].blocks[i].type = "tool_result"
       /\ fnInput.messages[2].blocks[i].id = "t1"
  /\ fnInput.messages[1].blocks[1] = fnInput.messages[2].blocks[2]
  /\ fnInput.messages[2].blocks[1].text # fnInput.messages[2].blocks[2].text
  /\ Len(fnOutput[1]) = 2

\* C25: filterIdentity is idempotent: filterIdentity(filterIdentity(s)) equals
\* filterIdentity(s) for every system prompt s.
C25_FilterIdempotent ==
  Len(fnOutput) = 2 => fnOutput[2] = fnOutput[1]

----------------------------------------------------------------------------
\* LocalProviderHandler.handle and PoeHandler.handle
\* (handlers/local-provider-handler.ts): what the handler answers, given the
\* request and what the upstream does with the chat-completions POST.

\* The phrases the error message of the upstream is searched for.
Phrases ==
  {"model", "not found", "does not exist", "does not support tools", "tool", "not supported"}

\* errorMsg.includes(phrase): "does not support tools" contains "tool".
includes(errorMsg, phrase) ==
  \/ phrase \in errorMsg
  \/ phrase = "tool" /\ "does not support tools" \in errorMsg

\* The body of a response that is not ok: plain text, JSON whose error.message
\* (or error) is a string, or JSON whose error is an object without a message.
ErrorBodies == [shape : {"text", "message", "object"}, phrases : SUBSET Phrases]

NoBody == [shape |-> "", phrases |-> {}]

\* What fetch does: it rejects with ECONNREFUSED or another error, or resolves
\* with a response.
UpstreamReplies ==
  {[kind |-> k, status |-> 0, body |-> NoBody] : k \in {"refused", "failed"}}
    \cup {[kind |-> "http", status |-> 200, body |-> NoBody]}
    \cup [kind : {"http"}, status : {401, 404, 500}, body : ErrorBodies]

\* One response of a handler.  kind: "error" (c.json of an error object), "sse"
\* (the event stream of the streaming translator, which starts with
\* message_start), "upstream_json" (c.json of the upstream's own JSON body),
\* "throws" (handle rejects).
Response(status, contentType, kind, type, message) ==
  [status |-> status, contentType |-> contentType, kind |-> kind, type |-> type,
   message |-> message]

\* The status errorResponse uses when it is given none.
DefaultStatus == 503

errorResponse(type, message, status) ==
  Response(status, "application/json", "error", type, message)

handleErrorResponse(status, errorBody) ==
  IF errorBody.shape # "message"
    \* JSON.parse throws, or errorMsg is no string and errorMsg.includes throws
    THEN errorResponse("api_error", "errorBody", status)
  ELSE LET errorMsg == errorBody.phrases
       IN IF /\ includes(errorMsg, "model")
             /\ includes(errorMsg, "not found") \/ includes(errorMsg, "does not exist")
            THEN errorResponse("model_not_found", "pull hint", DefaultStatus)
          ELSE IF \/ includes(errorMsg, "does not support tools")
                  \/ includes(errorMsg, "tool") /\ includes(errorMsg, "not supported")
            THEN errorResponse("capability_error", "no tool support", 400)
          ELSE errorResponse("api_error", "errorMsg", status)

\* LocalProviderHandler.handle(c, payload)
LocalHandle(req) ==
  IF ~req.healthChecked /\ ~req.healthy
    THEN errorResponse("connection_error", "connection", DefaultStatus)
  ELSE CASE req.upstream.kind = "refused" ->
              errorResponse("connection_error", "connection", DefaultStatus)
         [] req.upstream.kind = "failed" -> Response(0, "", "throws", "", "")
         [] req.upstream.status # 200 ->
              handleErrorResponse(req.upstream.status, req.upstream.body)
         [] OTHER ->
              IF req.supportsStreaming
                THEN Response(200, "text/event-stream", "sse", "", "")
                ELSE Response(200, "application/json", "upstream_json", "", "")

\* PoeHandler.handle(c, payload)
PoeHandle(req) ==
  CASE req.upstream.kind \in {"refused", "failed"} ->
         Response(500, "application/json", "error", "handler_error", "error.message")
    [] req.upstream.status # 200 ->
         Response(req.upstream.status, "application/json", "error", "api_error", "status")
    [] OTHER -> Response(200, "text/event-stream", "sse", "", "")

\* The requests: payload.stream, the provider's capabilities.supportsStreaming,
\* the handler's healthChecked flag, whether the provider answers the health
\* probe, and what the upstream does with the POST.
HandleRequests ==
  [handler : {"local", "poe"}, stream : BOOLEAN, supportsStreaming : BOOLEAN,
   healthChecked : BOOLEAN, healthy : BOOLEAN, upstream : UpstreamReplies]

HandleInit ==
  /\ NoResponse
  /\ fnInput \in HandleRequests
  /\ fnOutput = NoValue

LocalRespond ==
  /\ fnOutput = NoValue
  /\ fnInput.handler = "local"
  /\ fnOutput' = <<LocalHandle(fnInput)>>
  /\ UNCHANGED <<streamVars, fnInput>>

PoeRespond ==
  /\ fnOutput = NoValue
  /\ fnInput.handler = "poe"
  /\ fnOutput' = <<PoeHandle(fnInput)>>
  /\ UNCHANGED <<streamVars, fnInput>>

HandleNext ==
  \/ LocalRespond
  \/ PoeRespond

HandleSpec == HandleInit /\ [][HandleNext]_vars

\* The POST was sent and answered: the handler did not stop at the health check.
Posted ==
  /\ fnOutput # NoValue
  /\ fnInput.upstream.kind = "http"
  /\ fnInput.handler = "local" => (fnInput.healthChecked \/ fnInput.healthy)

\* C26: LocalProviderHandler.handle and PoeHandler.handle: when the upstream
\* answers the POST with HTTP 401 the handler responds with status 401 and a JSON
\* body {error: {type: auth_error, message}}, and sends no SSE event.
C26_Upstream401IsAuthError ==
  (Posted /\ fnInput.upstream.status = 401) =>
    /\ fnOutput[1].status = 401
    /\ fnOutput[1].contentType = "application/json"
    /\ fnOutput[1].kind = "error"
    /\ fnOutput[1].type = "auth_error"

\* C27: LocalProviderHandler: when the error body of the upstream says that the
\* model is not found or does not exist, the handler responds with error type
\* model_not_found and HTTP status 404.
C27_ModelNotFoundIs404 ==
  (Posted /\ fnInput.handler = "local" /\ fnInput.upstream.status # 200
     /\ fnInput.upstream.body.shape = "message"
     /\ "model" \in fnInput.upstream.body.phrases
     /\ fnInput.upstream.body.phrases \cap {"not found", "does not exist"} # {}) =>
    /\ fnOutput[1].type = "model_not_found"
    /\ fnOutput[1].status = 404

\* C28: LocalProviderHandler.handle chooses the form of the response by the
\* stream field of the request: a request with stream false is answered with one
\* application/json Anthropic message, and only a request with stream true is
\* answered with an SSE event stream.
C28_StreamFieldChoosesForm ==
  (Posted /\ fnInput.handler = "local" /\ fnInput.upstream.status = 200) =>
    /\ ~fnInput.stream =>
         fnOutput[1].contentType = "application/json" /\ fnOutput[1].kind = "message"
    /\ fnOutput[1].kind = "sse" => fnInput.stream

----------------------------------------------------------------------------
\* A chunk whose delta carries one tool_calls element without a function.name,
\* and nothing else.
Nameless(c) ==
  /\ c.valid /\ c.hasChoice
  /\ c.content = NoText /\ c.finish = "" /\ c.reasoning = NoText
  /\ Len(c.tool_calls) = 1
  /\ c.tool_calls[1].name = ""

\* C29: in both translators a tool_calls delta element without a function.name
\* whose upstream index has no tool block yet emits no event, allocates no block
\* index and leaves the block state as it was, so a later delta for the index
\* that carries a name meets the state it would have met without it.
C29_NamelessDeltaDropped ==
  [][ /\ (/\ handler = "compat" /\ pc = "hook" /\ pc' = "read" /\ hookFails' = hookFails
           /\ Nameless(cur)
           /\ ToolPos(state.tools, cur.tool_calls[1].index) = 0) =>
          (out' = out /\ state' = state)
      /\ (/\ handler = "poe" /\ Len(upstream') = Len(upstream) + 1
           /\ Nameless(upstream'[Len(upstream')])
           /\ getToolBlockIndex(blockTracker,
                                upstream'[Len(upstream')].tool_calls[1].index) = -1) =>
          (out' = out /\ blockTracker' = blockTracker
             /\ currentBlockIndex' = currentBlockIndex) ]_vars

\* C29 witness: a delta without a name for index 0 came first, a delta with a
\* name for index 0 came next, and the tool_use block was started with index 0
\* and received the arguments of the second delta only.
C29_Witness ==
  /\ Len(upstream) = 2 /\ pc = "read"
  /\ upstream[1] = ToolChunk(0, "", <<"y">>)
  /\ upstream[2] = ToolChunk(0, "f", <<"x">>)
  /\ \E p \in StartPos(out) : out[p].kind = "tool_use" /\ out[p].index = 0
  /\ \A d \in Pos(out, "content_block_delta") : out[d].data = <<"x">>
  /\ Pos(out, "content_block_delta") # {}

----------------------------------------------------------------------------
\* SSE line splitting: SSEParser.parse (handlers/local-provider-handler.ts) and
\* the inline splitter of createStreamingResponseHandler.  The decoded upstream
\* body is a sequence of tokens: "d" ":" stand for the two halves of the prefix
\* "data: ", "NL" for a newline, " " for white space, "#" for [DONE]; any other
\* token is payload text.

\* Segments one upstream body is made of.
MaxLines == 3
\* SSEParser.maxBufferSize (64 * 1024 characters in the source), in tokens.
maxBufferSize == 8

Segments ==
  { <<"d", ":", "x", "NL">>, <<"d", ":", "y", "NL">>, <<"d", ":", "#", "NL">>,
    <<"NL">>, <<"x", "NL">>, <<" ", "d", ":", "x", " ", "NL">>, <<"d", ":", "x">> }

RECURSIVE Flatten(_)
Flatten(segs) == IF segs = <<>> THEN <<>> ELSE Head(segs) \o Flatten(Tail(segs))

Bodies == {Flatten(segs) : segs \in SeqsUpTo(Segments, MaxLines)}

\* Mutant of SplitLines: what follows the last newline is not kept.
RECURSIVE SplitLinesDropRest(_)
SplitLinesDropRest(buffer) ==
  LET nl == IndexOf(buffer, "NL")
  IN IF nl = 0 THEN [lines |-> <<>>, rest |-> <<>>]
     ELSE LET more == SplitLinesDropRest(SubSeq(buffer, nl + 1, Len(buffer)))
          IN [lines |-> <<SubSeq(buffer, 1, nl - 1)>> \o more.lines, rest |-> more.rest]

\* lines = buffer.split("\n"); buffer = lines.pop() || ""
RECURSIVE SplitLines(_)
SplitLines(buffer) ==
  LET nl == IndexOf(buffer, "NL")
  IN IF nl = 0 THEN [lines |-> <<>>, rest |-> buffer]
     ELSE LET more == SplitLines(SubSeq(buffer, nl + 1, Len(buffer)))
          IN [lines |-> <<SubSeq(buffer, 1, nl - 1)>> \o more.lines, rest |-> more.rest]

\* line.startsWith("data: ")
startsWithData(line) == Len(line) >= 2 /\ line[1] = "d" /\ line[2] = ":"

\* line.slice(6)
slice6(line) == SubSeq(line, 3, Len(line))

\* The body of the loop of SSEParser.parse: the events one line adds.
SseLineEvents(rawLine) ==
  LET line == trim(rawLine)
      data == trim(slice6(line))
  IN IF startsWithData(line) /\ data # <<>> THEN <<data>> ELSE <<>>

RECURSIVE SseEvents(_)
SseEvents(lines) ==
  IF lines = <<>> THEN <<>> ELSE SseLineEvents(Head(lines)) \o SseEvents(Tail(lines))

\* Mutant of parse: the buffer is never cut down.
parseNoCap(p, chunk) ==
  LET split == SplitLines(p.buffer \o chunk)
  IN [p EXCEPT !.buffer = split.rest,
               !.events = @ \o SseEvents(split.lines),
               !.overflowed = @ \/ Len(p.buffer \o chunk) > maxBufferSize]

\* SSEParser.parse(chunk) on a parser whose buffer is p.buffer; events collects
\* what the calls returned, overflowed tells that the cap was exceeded.
parse(p, chunk) ==
  LET joined == p.buffer \o chunk
      over == Len(joined) > maxBufferSize
      kept == IF over
                THEN SubSeq(joined, Len(joined) - (maxBufferSize \div 2) + 1, Len(joined))
                ELSE joined
      split == SplitLines(kept)
  IN [p EXCEPT !.buffer = split.rest,
               !.events = @ \o SseEvents(split.lines),
               !.overflowed = @ \/ over]

\* The loop over the lines in createStreamingResponseHandler: a line that is
\* blank or lacks the prefix is skipped, [DONE] ends the read loop, any other
\* payload is handed to JSON.parse.
RECURSIVE CompatLines(_, _)
CompatLines(p, lines) ==
  IF lines = <<>> \/ p.done THEN p
  ELSE LET line == Head(lines)
           dataStr == slice6(line)
       IN IF trim(line) = <<>> \/ ~startsWithData(line)
            THEN CompatLines(p, Tail(lines))
            ELSE CompatLines([p EXCEPT !.events = Append(@, dataStr),
                                       !.done = (dataStr = <<"#">>)],
                             Tail(lines))

\* One round of the read loop of createStreamingResponseHandler.
readChunk(p, chunk) ==
  LET split == SplitLines(p.buffer \o chunk)
  IN CompatLines([p EXCEPT !.buffer = split.rest], split.lines)

\* A splitter that has read nothing: fed counts the tokens given to it, midLine
\* tells that some chunk ended inside a line.
NewSplitter ==
  [fed |-> 0, buffer |-> <<>>, events |-> <<>>, overflowed |-> FALSE, done |-> FALSE,
   midLine |-> FALSE]

SplitInit ==
  /\ NoResponse
  /\ fnInput \in [parser : {"sse", "compat"}, body : Bodies]
  /\ fnOutput = NewSplitter

\* reader.read() delivers the next n tokens of the body as one chunk.
NextChunk(n) == SubSeq(fnInput.body, fnOutput.fed + 1, fnOutput.fed + n)

SseParse(n) ==
  /\ fnInput.parser = "sse"
  /\ LET p == parse(fnOutput, NextChunk(n))
     IN fnOutput' = [p EXCEPT !.fed = @ + n, !.midLine = @ \/ p.buffer # <<>>]
  /\ UNCHANGED <<streamVars, fnInput>>

CompatRead(n) ==
  /\ fnInput.parser = "compat"
  /\ ~fnOutput.done
  /\ LET p == readChunk(fnOutput, NextChunk(n))
     IN fnOutput' = [p EXCEPT !.fed = @ + n, !.midLine = @ \/ p.buffer # <<>>]
  /\ UNCHANGED <<streamVars, fnInput>>

SplitNext ==
  \E n \in 1..(Len(fnInput.body) - fnOutput.fed) :
    \/ SseParse(n)
    \/ CompatRead(n)

SplitSpec == SplitInit /\ [][SplitNext]_vars

\* The complete lines of a text, by the positions of its newlines.
CompleteLines(text) ==
  LET nls == Sorted({i \in DOMAIN text : text[i] = "NL"})
  IN [k \in DOMAIN nls |-> SubSeq(text, (IF k = 1 THEN 0 ELSE nls[k - 1]) + 1, nls[k] - 1)]

\* What follows the last newline of a text.
Unfinished(text) ==
  LET nls == {i \in DOMAIN text : text[i] = "NL"}
  IN IF nls = {} THEN text
     ELSE SubSeq(text, (CHOOSE i \in nls : \A j \in nls : j <= i) + 1, Len(text))

\* The payloads of the lines of a text that carry one, for each splitter.
RECURSIVE DataOf(_, _)
DataOf(parser, lines) ==
  IF lines = <<>> THEN <<>>
  ELSE LET line == Head(lines)
       IN (IF parser = "sse"
             THEN IF startsWithData(trim(line)) /\ trim(slice6(trim(line))) # <<>>
                    THEN <<trim(slice6(trim(line)))>> ELSE <<>>
             ELSE IF startsWithData(line) THEN <<slice6(line)>> ELSE <<>>)
          \o DataOf(parser, Tail(lines))

\* A sequence of payloads up to the first [DONE], the [DONE] included.
UpToDone(events) ==
  IF \E k \in DOMAIN events : events[k] = <<"#">>
    THEN SubSeq(events, 1, CHOOSE k \in DOMAIN events :
                             events[k] = <<"#">> /\ \A j \in 1..(k - 1) : events[j] # <<"#">>)
    ELSE events

\* C30: SSE line parsing is independent of the chunk boundaries: however the
\* body is cut into chunks, as long as the buffer of SSEParser stays within its
\* cap, the payloads returned so far are those of the complete lines of what
\* was fed so far, in order and once each, with [DONE] in its place, and the
\* buffer holds the unfinished line; the inline splitter of
\* createStreamingResponseHandler does the same and stops at the first [DONE].
C30_CutsDoNotMatter ==
  LET text == SubSeq(fnInput.body, 1, fnOutput.fed)
      data == DataOf(fnInput.parser, CompleteLines(text))
  IN /\ (fnInput.parser = "sse" /\ ~fnOutput.overflowed) =>
          (fnOutput.events = data /\ fnOutput.buffer = Unfinished(text))
     /\ fnInput.parser = "compat" =>
          /\ fnOutput.events = UpToDone(data)
          /\ ~fnOutput.done => fnOutput.buffer = Unfinished(text)

\* C30 witness: a body of two data lines was fed in chunks that cut the first
\* line and the second, the cap was not exceeded, and both payloads were
\* returned.
C30_Witness ==
  /\ fnInput.body = <<"d", ":", "x", "NL", "d", ":", "y", "NL">>
  /\ fnOutput.fed = 8
  /\ fnOutput.midLine
  /\ ~fnOutput.overflowed
  /\ fnOutput.events = << <<"x">>, <<"y">> >>
  /\ fnOutput.buffer = <<>>

\* The newest half-cap of a text longer than the cap.
NewestHalf(text) == SubSeq(text, Len(text) - (maxBufferSize \div 2) + 1, Len(text))

\* C31: SSEParser: after every call of parse the buffer holds no newline and is
\* no longer than the cap; when the buffer with the chunk added is longer than
\* the cap, only its newest half-cap is kept and split into lines.
C31_BufferCapped ==
  [][ (fnInput.parser = "sse" /\ fnOutput'.fed > fnOutput.fed) =>
        LET chunk == SubSeq(fnInput.body, fnOutput.fed + 1, fnOutput'.fed)
            joined == fnOutput.buffer \o chunk
        IN /\ \A i \in DOMAIN fnOutput'.buffer : fnOutput'.buffer[i] # "NL"
           /\ Len(fnOutput'.buffer) <= maxBufferSize
           /\ Len(joined) > maxBufferSize =>
                /\ fnOutput'.buffer = Unfinished(NewestHalf(joined))
                /\ fnOutput'.events =
                     fnOutput.events \o DataOf("sse", CompleteLines(NewestHalf(joined))) ]_vars

\* C31 witness: a chunk took the buffer over the cap; of what was fed, a data
\* line was discarded, a later one was returned and an unfinished tail is kept.
C31_Witness ==
  /\ fnInput.parser = "sse"
  /\ fnOutput.overflowed
  /\ fnOutput.events # <<>>
  /\ fnOutput.events # DataOf("sse", CompleteLines(SubSeq(fnInput.body, 1, fnOutput.fed)))
  /\ fnOutput.buffer # <<>>

\* C37: SSEParser.parse never loses framed data: every complete data line of
\* the chunks given to parse is returned once and in order, also when the
\* buffer with the chunk is longer than the cap.
C37_NoFramedDataLost ==
  fnInput.parser = "sse" =>
    fnOutput.events = DataOf("sse", CompleteLines(SubSeq(fnInput.body, 1, fnOutput.fed)))

----------------------------------------------------------------------------
\* MiniMaxAdapter (adapters/minimax-adapter.ts).

\* Tokens of one text given to MiniMaxAdapter.processTextContent.
MaxText == 3

\* A field that an object does not have.
Absent == "absent"

\* The outgoing payload: thinking and reasoning_split are Absent or hold a
\* value, rest stands for the other fields (model, messages, ...).
Payloads ==
  [thinking : {Absent, "enabled"}, reasoning_split : {Absent, "true", "false"},
   rest : {"fields"}]

\* originalRequest.thinking: absent, or the object {type: "enabled", ...} or
\* {type: "disabled"}.
Thinking == {Absent, "enabled", "disabled"}

\* Mutant of prepareRequest: request.thinking is not deleted.
prepareRequestKeepThinking(request, originalRequest) ==
  IF originalRequest.thinking # Absent
    THEN [request EXCEPT !.reasoning_split = "true"]
    ELSE request

\* MiniMaxAdapter.prepareRequest(request, originalRequest)
prepareRequest(request, originalRequest) ==
  IF originalRequest.thinking # Absent
    THEN [request EXCEPT !.reasoning_split = "true", !.thinking = Absent]
    ELSE request

\* MiniMaxAdapter.processTextContent(textContent, accumulatedText)
MiniMaxProcessTextContent(textContent, accumulatedText) ==
  [cleanedText |-> textContent, extractedToolCalls |-> <<>>, wasTransformed |-> FALSE]

AdapterInit ==
  /\ NoResponse
  /\ fnInput \in [request : Payloads, thinking : Thinking,
                  textContent : SeqsUpTo({"t", "FS", "FE"}, MaxText),
                  accumulatedText : {<<>>, <<"a">>}]
  /\ fnOutput = NoValue

PrepareRequest ==
  /\ fnOutput = NoValue
  /\ fnOutput' = <<"prepareRequest",
                   prepareRequest(fnInput.request, [thinking |-> fnInput.thinking])>>
  /\ UNCHANGED <<streamVars, fnInput>>

ProcessTextContent ==
  /\ fnOutput = NoValue
  /\ fnOutput' = <<"processTextContent",
                   MiniMaxProcessTextContent(fnInput.textContent, fnInput.accumulatedText)>>
  /\ UNCHANGED <<streamVars, fnInput>>

AdapterNext ==
  \/ PrepareRequest
  \/ ProcessTextContent

AdapterSpec == AdapterInit /\ [][AdapterNext]_vars

\* C32: MiniMaxAdapter.prepareRequest: when the original request has a thinking
\* field the outgoing payload gets reasoning_split true and has no thinking
\* field, its other fields as they were; without a thinking field the payload
\* is returned unchanged; processTextContent returns its text unchanged, with no
\* extracted tool calls.
C32_MiniMaxReasoningSplit ==
  fnOutput # NoValue =>
    /\ (fnOutput[1] = "prepareRequest" /\ fnInput.thinking # Absent) =>
         /\ fnOutput[2].reasoning_split = "true"
         /\ fnOutput[2].thinking = Absent
         /\ fnOutput[2].rest = fnInput.request.rest
    /\ (fnOutput[1] = "prepareRequest" /\ fnInput.thinking = Absent) =>
         fnOutput[2] = fnInput.request
    /\ fnOutput[1] = "processTextContent" =>
         /\ fnOutput[2].cleanedText = fnInput.textContent
         /\ fnOutput[2].extractedToolCalls = <<>>

\* C32 witness: a payload that carried thinking and reasoning_split false was
\* prepared for an original request with thinking.
C32_Witness ==
  /\ fnOutput # NoValue
  /\ fnOutput[1] = "prepareRequest"
  /\ fnInput.thinking = "enabled"
  /\ fnInput.request.thinking = "enabled"
  /\ fnInput.request.reasoning_split = "false"
  /\ fnOutput[2].reasoning_split = "true"

----------------------------------------------------------------------------
\* C33: in both translators no content_block_delta for a block index is emitted
\* after the content_block_stop of that index.
C33_NoDeltaAfterStop ==
  \A d \in Pos(out, "content_block_delta") :
    \A s \in StopsOf(out, out[d].index) : d < s

\* No translated chunk carries a <function_calls> marker in its text.
NoXmlText ==
  \A k \in DOMAIN Processed :
    \A i \in DOMAIN Processed[k].content : Processed[k].content[i] # "FS"

\* C34: in both translators (no hook threw, the client stayed, no tool call
\* written as XML text) every upstream tool-call index gets at most one tool_use
\* content_block_start, however many of its deltas carry a name, and the block
\* of the k-th named index receives all the arguments sent for that index.
C34_OneToolBlockPerIndex ==
  (hookFails = 0 /\ ~cancelled /\ NoXmlText) =>
    LET tcs == AllToolCalls(Processed)
        order == NamedIndices(tcs, {})
        starts == ToolStarts(out)
    IN /\ Len(starts) <= Len(order)
       /\ \A k \in DOMAIN starts :
            PartialJson(out, starts[k]) = ArgsSent(tcs, order[k], FALSE)

----------------------------------------------------------------------------
\* LocalProviderHandler over several requests: the health gate of handle and
\* checkHealth (handlers/local-provider-handler.ts).

\* Requests one handler serves.
MaxRequests == 3

\* What a probe (GET /api/tags, GET /v1/models) does: it answers with an OK
\* status, with another status, or fetch rejects.
ProbeOutcomes == {"ok", "notok", "throws"}

\* What the chat-completions endpoint does with the POST in these runs.
PostOutcomes ==
  { [kind |-> "refused", status |-> 0, body |-> NoBody],
    [kind |-> "http", status |-> 200, body |-> NoBody],
    [kind |-> "http", status |-> 500, body |-> [shape |-> "text", phrases |-> {}]] }

\* checkHealth() on a handler h when the probes would answer tags and models:
\* the new flags, the value returned, and the probes that were made.
checkHealth(h, tags, models) ==
  IF h.healthChecked
    THEN [healthChecked |-> TRUE, isHealthy |-> h.isHealthy, result |-> h.isHealthy,
          probed |-> <<>>]
  ELSE IF tags = "ok"
    THEN [healthChecked |-> TRUE, isHealthy |-> TRUE, result |-> TRUE,
          probed |-> <<"/api/tags">>]
  ELSE IF tags = "throws" /\ models = "ok"
    THEN [healthChecked |-> TRUE, isHealthy |-> TRUE, result |-> TRUE,
          probed |-> <<"/api/tags", "/v1/models">>]
  ELSE [healthChecked |-> TRUE, isHealthy |-> FALSE, result |-> FALSE,
        probed |-> IF tags = "throws" THEN <<"/api/tags", "/v1/models">>
                   ELSE <<"/api/tags">>]

\* A handler as constructed; log records, for every request served, what the
\* probes and the endpoint would do and what the handler did.
NewHandler == [healthChecked |-> FALSE, isHealthy |-> FALSE, log |-> <<>>]

HealthInit ==
  /\ NoResponse
  /\ fnInput = NoValue
  /\ fnOutput = NewHandler

\* LocalProviderHandler.handle(c, payload) for one request.
LocalRequest(tags, models, post) ==
  /\ Len(fnOutput.log) < MaxRequests
  /\ LET gate == ~fnOutput.healthChecked
         health == IF gate THEN checkHealth(fnOutput, tags, models)
                   ELSE [healthChecked |-> fnOutput.healthChecked,
                         isHealthy |-> fnOutput.isHealthy, result |-> TRUE,
                         probed |-> <<>>]
         posted == ~gate \/ health.result
         response == LocalHandle([healthChecked |-> ~gate, healthy |-> health.result,
                                  upstream |-> post, supportsStreaming |-> TRUE])
     IN fnOutput' =
          [healthChecked |-> health.healthChecked,
           isHealthy |-> health.isHealthy,
           log |-> Append(fnOutput.log,
                          [checked |-> gate, tags |-> tags, models |-> models,
                           probed |-> health.probed, healthy |-> health.result,
                           posted |-> posted, post |-> post, response |-> response])]
  /\ UNCHANGED <<streamVars, fnInput>>

HealthNext ==
  \E tags, models \in ProbeOutcomes, post \in PostOutcomes : LocalRequest(tags, models, post)

HealthSpec == HealthInit /\ [][HealthNext]_vars

\* C35: LocalProviderHandler: a request is forwarded to the chat-completions
\* endpoint only if the provider's health check succeeded; after a failed
\* health check every later request is answered with connection_error and the
\* endpoint is not contacted.
C35_ForwardOnlyWhenHealthy ==
  \A k \in DOMAIN fnOutput.log :
    LET passed == \E j \in 1..k : fnOutput.log[j].checked /\ fnOutput.log[j].healthy
    IN /\ fnOutput.log[k].posted => passed
       /\ ~passed =>
            /\ fnOutput.log[k].response.kind = "error"
            /\ fnOutput.log[k].response.type = "connection_error"

\* C36: LocalProviderHandler.checkHealth reports the provider healthy if and
\* only if at least one of the probes /api/tags and /v1/models answers with an
\* OK status; the second probe is made whenever the first did not succeed.
C36_HealthyIffAProbeOk ==
  \A k \in DOMAIN fnOutput.log :
    fnOutput.log[k].checked =>
      /\ fnOutput.log[k].healthy <=>
           (fnOutput.log[k].tags = "ok" \/ fnOutput.log[k].models = "ok")
      /\ fnOutput.log[k].tags # "ok" =>
           fnOutput.log[k].probed = <<"/api/tags", "/v1/models">>

----------------------------------------------------------------------------
\* PoeHandler.transformChunk as a function of one chunk.

\* delta._cachedCleanText after transformChunk(c): set when the content holds
\* tool calls written as XML and text outside the block, NoText when not set.
cachedCleanText(c) ==
  IF /\ c.hasChoice /\ c.object \in {"chat.completion.chunk", "chat.completion"}
     /\ c.tool_calls = <<>> /\ c.content # NoText
     /\ containsToolCalls(c.content)
     /\ parseToolCalls(c.content, 0) # <<>>
     /\ removeToolCalls(c.content) # <<>>
    THEN removeToolCalls(c.content)
    ELSE NoText

\* The texts a delta may carry: none, plain text, text around a complete
\* <function_calls> block, a block alone, a block without invoke, an
\* unfinished block.
DeltaTexts ==
  { NoText, <<"t">>,
    <<"t", "FS", "IS:f", "PS:k", "v", "PE", "IE", "FE", "u">>,
    <<"FS", "IS:f", "IE", "FE">>,
    <<"t", "FS", "FE">>,
    <<"t", "FS", "IS:f">> }

\* The chunks given to transformChunk: object is "" when the field is missing.
TransformInputs ==
  { [Chunk(obj, role, content, tcs, fin, NoUsage) EXCEPT !.hasChoice = hc] :
      obj \in {CC, "chat.completion", ""}, role \in BOOLEAN, content \in DeltaTexts,
      tcs \in {<<>>, <<ToolCall(0, "f", <<"x">>)>>},
      fin \in {"", "stop", "tool_calls"}, hc \in BOOLEAN }

TransformInit ==
  /\ NoResponse
  /\ fnInput \in TransformInputs
  /\ fnOutput = NoValue

Transform ==
  /\ fnOutput = NoValue
  /\ fnOutput' = <<[result |-> transformChunk(fnInput),
                   cached |-> cachedCleanText(fnInput)]>>
  /\ UNCHANGED <<streamVars, fnInput>>

TransformNext == Transform

TransformSpec == TransformInit /\ [][TransformNext]_vars

\* C38: PoeHandler.transformChunk classifies a chunk by the delta of its first
\* choice, with or without an object field: tool_calls in the delta give a
\* tool_calls result with those calls, before content and finish_reason;
\* otherwise content with a complete <function_calls> block of at least one
\* invoke gives a tool_calls result, the text outside the block cached on the
\* delta when there is some; otherwise content gives a text delta with the
\* content.
C38_ClassifiedByDelta ==
  (fnOutput # NoValue /\ fnInput.hasChoice) =>
    LET c == fnInput
        r == fnOutput[1].result
        fs == IndexOf(c.content, "FS")
        fe == IndexOf(c.content, "FE")
        block == fs # 0 /\ fe > fs
                   /\ \E i \in (fs + 1)..(fe - 1) : c.content[i] \in InvokeStarts
        outside == SubSeq(c.content, 1, fs - 1) \o SubSeq(c.content, fe + 1, Len(c.content))
    IN IF c.tool_calls # <<>>
         THEN r.type = "tool_calls" /\ r.tool_calls = c.tool_calls
       ELSE IF c.content # NoText /\ block
         THEN /\ r.type = "tool_calls"
              /\ Len(r.tool_calls) >= 1
              /\ outside # <<>> => fnOutput[1].cached = outside
       ELSE IF c.content # NoText
         THEN r.type = "content_block_delta" /\ r.text = c.content
       ELSE TRUE

----------------------------------------------------------------------------
\* The update checker (update-checker.ts): checkForUpdates over several runs,
\* with the cache file and the clock.

\* Calls of checkForUpdates, and ticks of the clock, in one behaviour.
MaxCalls == 3
MaxTime == 4
\* CACHE_MAX_AGE_MS (24 hours in the source), in ticks of the clock.
CACHE_MAX_AGE_MS == 2

\* null as a version, and a cache file that does not exist.
NoVersion == <<>>
NoCache == [exists |-> FALSE, lastCheck |-> 0, latestVersion |-> NoVersion]

\* The installed version and what the registry may hold; a version is the
\* sequence of its numeric parts.
currentVersion == <<1, 2>>
RegistryVersions == {<<1, 1>>, <<1, 2>>, <<1, 2, 0>>, <<1, 10>>}

\* parts[i] || 0
Part(v, i) == IF i \in DOMAIN v THEN v[i] ELSE 0

RECURSIVE CompareFrom(_, _, _)
CompareFrom(v1, v2, i) ==
  IF i > Len(v1) /\ i > Len(v2) THEN 0
  ELSE IF Part(v1, i) > Part(v2, i) THEN 1
  ELSE IF Part(v1, i) < Part(v2, i) THEN -1
  ELSE CompareFrom(v1, v2, i + 1)

compareVersions(v1, v2) == CompareFrom(v1, v2, 1)

isCacheValid(cache, now) == now - cache.lastCheck < CACHE_MAX_AGE_MS

\* Mutant of writeCache: a failed fetch is not recorded.
writeCacheIfFound(cache, latestVersion, now, writable) ==
  IF writable /\ latestVersion # NoVersion
    THEN [exists |-> TRUE, lastCheck |-> now, latestVersion |-> latestVersion]
    ELSE cache

\* writeCache(latestVersion): the file afterwards; a failed write is swallowed.
writeCache(cache, latestVersion, now, writable) ==
  IF writable
    THEN [exists |-> TRUE, lastCheck |-> now, latestVersion |-> latestVersion]
    ELSE cache

\* clearCache(): the file afterwards; a failed unlink is swallowed.
clearCache(cache, writable) == IF writable THEN NoCache ELSE cache

\* The state of the machine the program runs on.  lastFetch is the time of the
\* last request to the registry (-1: none), cleared tells that a successful
\* update cleared the cache after it, last describes the last call.
NoCall == [fetched |-> FALSE, newer |-> FALSE, confirmed |-> FALSE, updated |-> FALSE,
           returned |-> FALSE]

UpdateInit ==
  /\ NoResponse
  /\ fnInput \in [writable : BOOLEAN]
  /\ fnOutput \in
       [now : {0}, calls : {0}, lastFetch : {-1}, cleared : {FALSE}, last : {NoCall},
        cache : {NoCache} \cup
                [exists : {TRUE}, lastCheck : (0 - CACHE_MAX_AGE_MS)..0,
                 latestVersion : RegistryVersions \cup {NoVersion}]]

\* Time passes.
ClockTick ==
  /\ fnOutput.now < MaxTime
  /\ fnOutput' = [fnOutput EXCEPT !.now = @ + 1]
  /\ UNCHANGED <<streamVars, fnInput>>

\* checkForUpdates(currentVersion, {skipPrompt}): registry is what
\* fetchLatestVersion would return, answer what the user would reply, updateOk
\* whether npm install would succeed.
checkForUpdates(registry, skipPrompt, answer, updateOk) ==
  /\ fnOutput.calls < MaxCalls
  /\ LET s == fnOutput
         cached == s.cache.exists /\ isCacheValid(s.cache, s.now)
         latestVersion == IF cached THEN s.cache.latestVersion ELSE registry
         cache1 == IF cached THEN s.cache
                   ELSE writeCache(s.cache, latestVersion, s.now, fnInput.writable)
         newer == latestVersion # NoVersion
                    /\ compareVersions(latestVersion, currentVersion) > 0
         shouldUpdate == newer /\ ~skipPrompt /\ answer
         success == shouldUpdate /\ updateOk
     IN fnOutput' =
          [now |-> s.now,
           calls |-> s.calls + 1,
           cache |-> IF success THEN clearCache(cache1, fnInput.writable) ELSE cache1,
           lastFetch |-> IF cached THEN s.lastFetch ELSE s.now,
           cleared |-> IF cached THEN s.cleared \/ success ELSE success,
           last |-> [fetched |-> ~cached, newer |-> newer, confirmed |-> shouldUpdate,
                     updated |-> success, returned |-> success]]
  /\ UNCHANGED <<streamVars, fnInput>>

UpdateNext ==
  \/ ClockTick
  \/ \E registry \in RegistryVersions \cup {NoVersion}, skipPrompt, answer, updateOk \in BOOLEAN :
       checkForUpdates(registry, skipPrompt, answer, updateOk)

UpdateSpec == UpdateInit /\ [][UpdateNext]_vars

\* C39: checkForUpdates asks the registry only when there is no cache entry or
\* the entry is 24 hours old or older; with a writable cache file no call within
\* 24 hours after a request to the registry makes another one, unless a
\* successful update cleared the cache in between; and it returns true only
\* when a newer version was found, the user confirmed and the update succeeded.
C39_UpdateCheckCached ==
  [][ fnOutput'.calls = fnOutput.calls + 1 =>
        /\ fnOutput'.last.fetched =>
             (~fnOutput.cache.exists
                \/ fnOutput.now - fnOutput.cache.lastCheck >= CACHE_MAX_AGE_MS)
        /\ (/\ fnInput.writable /\ fnOutput.lastFetch # -1 /\ ~fnOutput.cleared
            /\ fnOutput.now - fnOutput.lastFetch < CACHE_MAX_AGE_MS) =>
             ~fnOutput'.last.fetched
        /\ fnOutput'.last.returned =>
             (fnOutput'.last.newer /\ fnOutput'.last.confirmed /\ fnOutput'.last.updated) ]_vars

\* C39 witness: a request to the registry failed and was recorded; a second
\* call, later but less than 24 hours after it, made no request.
C39_Witness ==
  /\ fnInput.writable
  /\ fnOutput.calls = 2
  /\ ~fnOutput.last.fetched
  /\ fnOutput.lastFetch # -1
  /\ fnOutput.now > fnOutput.lastFetch
  /\ fnOutput.now - fnOutput.lastFetch < CACHE_MAX_AGE_MS
  /\ fnOutput.cache.exists /\ fnOutput.cache.latestVersion = NoVersion
  /\ fnOutput.cache.lastCheck = fnOutput.lastFetch

====
